---- MODULE Spec2Model ----
(***************************************************************************)
(* Verification model of the ROX chart library (Rhythm-Open-Exchange):     *)
(* the chart data model and RoxChart::validate, the binary codec RoxCodec  *)
(* (delta encoding, structural serialization, compression frame, magic)    *)
(* and the auto-detecting dispatcher (from_bytes, decode_osu_by_mode,      *)
(* detect_osu_mode).                                                       *)
(***************************************************************************)
EXTENDS Integers, Sequences, FiniteSets, TLC

\* ------------------------------------------------------------------------
\* Bounds of the model
\* ------------------------------------------------------------------------
\* Width, in bits, of the integer that stands for Rust's i64.
I64Bits == 3
\* Longest note list and timing-point list a caller builds.
MaxNotes == 2
MaxTimingPoints == 2
\* How often the delta round trip is repeated on its own output.
MaxRounds == 2

\* ------------------------------------------------------------------------
\* State
\* ------------------------------------------------------------------------
VARIABLES
    overflow_checks, \* build profile: TRUE = overflow checks on (dev/test), FALSE = wrapping (release)
    chart,           \* the caller's RoxChart
    pc,              \* "build" | "validated" | "encoded" | "decoded" | "raw_decoded" | "delta"
                     \* and, for the dispatcher, "write" | "from_bytes" | "osu_by_mode" | "probed"
    before,          \* the caller's chart as it was when the last operation was called
    vres,            \* result of the last RoxChart::validate call
    eres,            \* result of the last RoxCodec::encode call
    dres,            \* result of the last RoxCodec::decode call
    io_log,          \* the library calls the last decode made, in order
    rt,              \* the last delta_encode_notes / delta_decode_notes round trip
    doc,             \* the document handed to the dispatcher
    ares,            \* result of the last dispatcher call
    calls,           \* the decoders the last dispatcher call ran, in order
    tin,             \* the input of the last format-translator operation
    tout             \* what that operation returned

vars == <<overflow_checks, chart, pc, before, vres, eres, dres, io_log, rt, doc, ares, calls,
          tin, tout>>
tr_vars == <<tin, tout>>
auto_vars == <<doc, ares, calls>>
codec_vars == <<chart, before, vres, eres, dres, io_log, rt>>

\* ------------------------------------------------------------------------
\* i64 arithmetic (src/model/note.rs, rox/encoder.rs, rox/decoder.rs use the
\* plain operators +, - and += on i64: overflow panics when the build has
\* overflow checks and wraps in two's complement when it has not)
\* ------------------------------------------------------------------------
I64Mod == 2 ^ I64Bits
MinI64 == -(2 ^ (I64Bits - 1))
MaxI64 == (2 ^ (I64Bits - 1)) - 1
InI64(x) == MinI64 <= x /\ x <= MaxI64
WrapI64(x) == ((x - MinI64) % I64Mod) + MinI64

\* The outcome of an i64 `a + b` / `a - b` whose mathematical value is x.
I64Arith(x) ==
    IF InI64(x) THEN [panic |-> FALSE, val |-> x]
    ELSE IF overflow_checks THEN [panic |-> TRUE, val |-> 0]
    ELSE [panic |-> FALSE, val |-> WrapI64(x)]

\* Option<T>: None is the empty sequence, Some(x) the one-element sequence.
None == <<>>
Some(x) == <<x>>

\* ------------------------------------------------------------------------
\* Data model
\* ------------------------------------------------------------------------
ROX_VERSION == 2
ROX_MAGIC == <<82, 79, 88, 0>>

Tap == [tag |-> "Tap", duration_us |-> 0]
Mine == [tag |-> "Mine", duration_us |-> 0]
Hold(d) == [tag |-> "Hold", duration_us |-> d]
Burst(d) == [tag |-> "Burst", duration_us |-> d]

MkNote(t, ty, hs, col) ==
    [time_us |-> t, note_type |-> ty, hitsound_index |-> hs, column |-> col]

is_hold(note) == note.note_type.tag = "Hold"
is_burst(note) == note.note_type.tag = "Burst"

\* Note::duration_us
duration_us(note) ==
    IF note.note_type.tag \in {"Tap", "Mine"} THEN 0 ELSE note.note_type.duration_us

\* Note::end_time_us: self.time_us + self.duration_us()
end_time_us(note) == I64Arith(note.time_us + duration_us(note))

\* TimingPoint::bpm and TimingPoint::sv (bpm and scroll_speed in thousandths)
TimingPoint_bpm(t, b) ==
    [time_us |-> t, bpm |-> b, signature |-> 4, is_inherited |-> FALSE, scroll_speed |-> 1000]
TimingPoint_sv(t, s) ==
    [time_us |-> t, bpm |-> 0, signature |-> 4, is_inherited |-> TRUE, scroll_speed |-> s]

\* RoxChart::new
RoxChart_new(key_count) ==
    [version |-> ROX_VERSION,
     metadata |-> [key_count |-> key_count, audio_offset_us |-> 0, is_coop |-> FALSE],
     timing_points |-> <<>>,
     notes |-> <<>>,
     hitsounds |-> <<>>]

\* ------------------------------------------------------------------------
\* RoxChart::validate (src/model/chart.rs)
\* ------------------------------------------------------------------------
OkRes == [kind |-> "Ok"]
PanicRes == [kind |-> "Panic"]
IsErr(r) == r.kind \notin {"Ok", "Panic"}

\* The least element of a nonempty set of indices (a `for` loop returns at its first hit).
MinOf(S) == CHOOSE i \in S : \A k \in S : i <= k

\* for note in &self.notes { if note.column >= key_count { return Err(InvalidColumn) } }
check_columns(c) ==
    LET key_count == c.metadata.key_count
        Bad == {i \in 1..Len(c.notes) : c.notes[i].column >= key_count}
    IN  IF Bad = {} THEN OkRes
        ELSE [kind |-> "InvalidColumn", column |-> c.notes[MinOf(Bad)].column,
              key_count |-> key_count]

\* if self.metadata.is_coop && !key_count.is_multiple_of(2) { return Err(InvalidFormat) }
check_coop(c) ==
    IF c.metadata.is_coop /\ c.metadata.key_count % 2 # 0
    THEN [kind |-> "InvalidFormat", reason |-> "Coop mode requires even key count"]
    ELSE OkRes

\* if (note.is_hold() || note.is_burst()) && duration <= 0 { return Err(InvalidHoldDuration) }
check_durations(c) ==
    LET Bad == {i \in 1..Len(c.notes) :
                    (is_hold(c.notes[i]) \/ is_burst(c.notes[i])) /\ duration_us(c.notes[i]) <= 0}
    IN  IF Bad = {} THEN OkRes
        ELSE [kind |-> "InvalidHoldDuration", time_us |-> c.notes[MinOf(Bad)].time_us,
              duration_us |-> duration_us(c.notes[MinOf(Bad)])]

\* validate without its loop over the timing points
check_timing_sorted_skipped(c) == OkRes

\* let mut prev_time = i64::MIN; for tp { if tp.time_us < prev_time { return Err } prev_time = tp.time_us }
check_timing_sorted(c) ==
    LET tps == c.timing_points
        prev(i) == IF i = 1 THEN MinI64 ELSE tps[i - 1].time_us
        Bad == {i \in 1..Len(tps) : tps[i].time_us < prev(i)}
    IN  IF Bad = {} THEN OkRes
        ELSE [kind |-> "TimingPointsNotSorted", prev_time_us |-> prev(MinOf(Bad)),
              time_us |-> tps[MinOf(Bad)].time_us]

\* if !self.notes.is_empty() { let Some(_) = timing_points.iter().find(|tp| !tp.is_inherited) else { return Err(NoBpmTimingPoint) } }
check_bpm(c) ==
    IF c.notes # <<>> /\ ~(\E i \in 1..Len(c.timing_points) : ~c.timing_points[i].is_inherited)
    THEN [kind |-> "NoBpmTimingPoint"]
    ELSE OkRes

\* self.notes.iter().filter(|n| n.column == col).collect()
RECURSIVE filter_column(_, _)
filter_column(notes, col) ==
    IF notes = <<>> THEN <<>>
    ELSE IF Head(notes).column = col
         THEN <<Head(notes)>> \o filter_column(Tail(notes), col)
         ELSE filter_column(Tail(notes), col)

\* Place n behind every element whose key is <= its own: equal keys keep their order.
RECURSIVE insert_by_time(_, _)
insert_by_time(sorted, n) ==
    IF sorted = <<>> THEN <<n>>
    ELSE IF Head(sorted).time_us <= n.time_us
         THEN <<Head(sorted)>> \o insert_by_time(Tail(sorted), n)
         ELSE <<n>> \o sorted

\* slice::sort_by_key(|n| n.time_us): a stable sort
RECURSIVE sort_by_key_time(_)
sort_by_key_time(s) ==
    IF s = <<>> THEN <<>>
    ELSE insert_by_time(sort_by_key_time(SubSeq(s, 1, Len(s) - 1)), s[Len(s)])

\* for window in col_notes.windows(2) { if curr.time_us < prev.end_time_us() { return Err(OverlappingNotes) } }
RECURSIVE check_windows(_, _, _)
check_windows(col, col_notes, i) ==
    IF i >= Len(col_notes) THEN OkRes
    ELSE LET prev == col_notes[i]
             curr == col_notes[i + 1]
             prev_end == end_time_us(prev)
         IN  IF prev_end.panic THEN PanicRes
             ELSE IF curr.time_us < prev_end.val
                  THEN [kind |-> "OverlappingNotes", column |-> col, time_us |-> curr.time_us]
                  ELSE check_windows(col, col_notes, i + 1)

\* for col in 0..key_count { ... }
RECURSIVE check_overlaps(_, _)
check_overlaps(c, col) ==
    IF col >= c.metadata.key_count THEN OkRes
    ELSE LET r == check_windows(col, sort_by_key_time(filter_column(c.notes, col)), 1)
         IN  IF r.kind # "Ok" THEN r ELSE check_overlaps(c, col + 1)

\* The checks in the order the function makes them; the first failure returns.
validate(c) ==
    LET r1 == check_columns(c)
        r2 == check_coop(c)
        r3 == check_durations(c)
        r4 == check_timing_sorted(c)
        r5 == check_bpm(c)
    IN  IF r1.kind # "Ok" THEN r1
        ELSE IF r2.kind # "Ok" THEN r2
        ELSE IF r3.kind # "Ok" THEN r3
        ELSE IF r4.kind # "Ok" THEN r4
        ELSE IF r5.kind # "Ok" THEN r5
        ELSE check_overlaps(c, 0)

\* ------------------------------------------------------------------------
\* Byte strings.  [bytes, pad] stands for `bytes` followed by `pad` zero
\* bytes, so that inputs of 100 MiB need no 100 MiB sequence.
\* ------------------------------------------------------------------------
Bytes(b) == [bytes |-> b, pad |-> 0]
data_len(d) == Len(d.bytes) + d.pad
ByteAt(d, i) == IF i <= Len(d.bytes) THEN d.bytes[i] ELSE 0
\* data[..n], for n <= data.len()
Prefix(d, n) == [i \in 1..n |-> ByteAt(d, i)]
\* data[n..], for n <= data.len()
Skip(d, n) ==
    IF n <= Len(d.bytes)
    THEN [bytes |-> SubSeq(d.bytes, n + 1, Len(d.bytes)), pad |-> d.pad]
    ELSE [bytes |-> <<>>, pad |-> d.pad - (n - Len(d.bytes))]

\* ------------------------------------------------------------------------
\* Structural serialization (rkyv::to_bytes / rkyv::from_bytes): fields in
\* declaration order, fixed width, an i64 as its two's-complement pattern.
\* ------------------------------------------------------------------------
ToBits(x) == x % I64Mod
FromBits(w) == IF w >= 2 ^ (I64Bits - 1) THEN w - I64Mod ELSE w
BoolByte(b) == IF b THEN 1 ELSE 0

NoteTags == <<"Tap", "Hold", "Burst", "Mine">>
TagCode(tag) == CHOOSE i \in 1..4 : NoteTags[i] = tag

NoteWords == 6
TimingPointWords == 5
HitsoundWords == 3
HeaderWords == 4

ser_note(n) ==
    <<ToBits(n.time_us), TagCode(n.note_type.tag), ToBits(n.note_type.duration_us),
      Len(n.hitsound_index),
      IF n.hitsound_index = None THEN 0 ELSE n.hitsound_index[1],
      n.column>>

ser_timing_point(tp) ==
    <<ToBits(tp.time_us), tp.bpm, tp.signature, BoolByte(tp.is_inherited), tp.scroll_speed>>

ser_hitsound(h) ==
    <<h.file, Len(h.volume), IF h.volume = None THEN 0 ELSE h.volume[1]>>

RECURSIVE ser_seq(_, _)
ser_seq(s, kind) ==
    IF s = <<>> THEN <<>>
    ELSE (CASE kind = "note" -> ser_note(Head(s))
            [] kind = "tp" -> ser_timing_point(Head(s))
            [] OTHER -> ser_hitsound(Head(s)))
         \o ser_seq(Tail(s), kind)

\* rkyv::to_bytes(&delta_chart)
to_bytes(c) ==
    <<c.version, c.metadata.key_count, ToBits(c.metadata.audio_offset_us),
      BoolByte(c.metadata.is_coop)>>
    \o <<Len(c.timing_points)>> \o ser_seq(c.timing_points, "tp")
    \o <<Len(c.notes)>> \o ser_seq(c.notes, "note")
    \o <<Len(c.hitsounds)>> \o ser_seq(c.hitsounds, "hs")

de_note(d, at) ==
    [time_us |-> FromBits(ByteAt(d, at)),
     note_type |-> [tag |-> NoteTags[ByteAt(d, at + 1)],
                    duration_us |-> FromBits(ByteAt(d, at + 2))],
     hitsound_index |-> IF ByteAt(d, at + 3) = 0 THEN None ELSE Some(ByteAt(d, at + 4)),
     column |-> ByteAt(d, at + 5)]

de_timing_point(d, at) ==
    [time_us |-> FromBits(ByteAt(d, at)),
     bpm |-> ByteAt(d, at + 1),
     signature |-> ByteAt(d, at + 2),
     is_inherited |-> ByteAt(d, at + 3) = 1,
     scroll_speed |-> ByteAt(d, at + 4)]

de_hitsound(d, at) ==
    [file |-> ByteAt(d, at),
     volume |-> IF ByteAt(d, at + 1) = 0 THEN None ELSE Some(ByteAt(d, at + 2))]

\* rkyv::from_bytes::<RoxChart>(&decompressed): the archive must have exactly
\* the layout to_bytes writes (counts consistent with the length, tags valid).
from_bytes_rkyv(d) ==
    LET n == data_len(d)
        ntp == ByteAt(d, HeaderWords + 1)
        tp0 == HeaderWords + 2
        nn_at == tp0 + TimingPointWords * ntp
        nn == ByteAt(d, nn_at)
        n0 == nn_at + 1
        nh_at == n0 + NoteWords * nn
        nh == ByteAt(d, nh_at)
        h0 == nh_at + 1
        wellformed ==
            /\ n >= HeaderWords + 1
            /\ n >= nn_at
            /\ n >= nh_at
            /\ n = nh_at + HitsoundWords * nh
            /\ \A i \in 0..(nn - 1) : ByteAt(d, n0 + NoteWords * i + 1) \in 1..4
    IN  IF ~wellformed THEN [kind |-> "Deserialize"]
        ELSE [kind |-> "Ok",
              chart |->
                [version |-> ByteAt(d, 1),
                 metadata |-> [key_count |-> ByteAt(d, 2),
                               audio_offset_us |-> FromBits(ByteAt(d, 3)),
                               is_coop |-> ByteAt(d, 4) = 1],
                 timing_points |-> [i \in 1..ntp |-> de_timing_point(d, tp0 + TimingPointWords * (i - 1))],
                 notes |-> [i \in 1..nn |-> de_note(d, n0 + NoteWords * (i - 1))],
                 hitsounds |-> [i \in 1..nh |-> de_hitsound(d, h0 + HitsoundWords * (i - 1))]]]

\* ------------------------------------------------------------------------
\* Compression (zstd::stream on native targets): a stream opens with the
\* zstd frame magic, and decompression of anything else is an I/O error.
\* ------------------------------------------------------------------------
ZSTD_MAGIC == <<40, 181, 47, 253>>

compress(words) == [kind |-> "Ok", data |-> ZSTD_MAGIC \o words]

decompress(d) ==
    IF data_len(d) >= 4 /\ Prefix(d, 4) = ZSTD_MAGIC
    THEN [kind |-> "Ok", data |-> Skip(d, 4)]
    ELSE [kind |-> "Io"]

\* ------------------------------------------------------------------------
\* RoxCodec::encode (src/codec/formats/rox/encoder.rs)
\* ------------------------------------------------------------------------
\* for note in &mut result.notes { note.time_us = original_time - last_time; last_time = original_time }
RECURSIVE delta_encode_loop(_, _)
delta_encode_loop(notes, last_time) ==
    IF notes = <<>> THEN [panic |-> FALSE, notes |-> <<>>]
    ELSE LET original_time == Head(notes).time_us
             delta == I64Arith(original_time - last_time)
             rest == delta_encode_loop(Tail(notes), original_time)
         IN  IF delta.panic \/ rest.panic THEN [panic |-> TRUE, notes |-> <<>>]
             ELSE [panic |-> FALSE,
                   notes |-> <<[Head(notes) EXCEPT !.time_us = delta.val]>> \o rest.notes]

\* A delta encoder that writes the deltas into the borrowed chart itself.
delta_encode_notes_in_place(c) ==
    LET r == delta_encode_loop(c.notes, 0)
    IN  [panic |-> r.panic,
         input |-> [c EXCEPT !.notes = r.notes],
         result |-> [c EXCEPT !.notes = r.notes]]

\* The deltas are written to `result`, a clone of the borrowed chart.  `input` is
\* the borrowed chart as the call leaves it.
delta_encode_notes(c) ==
    LET result == c
        r == delta_encode_loop(result.notes, 0)
    IN  [panic |-> r.panic,
         input |-> c,
         result |-> [result EXCEPT !.notes = r.notes]]

\* An encoder that skips chart.validate().
encode_without_validate(c) ==
    LET de == delta_encode_notes(c)
        compressed == compress(to_bytes(de.result))
    IN  IF de.panic THEN [res |-> PanicRes, chart |-> de.input]
        ELSE [res |-> [kind |-> "Ok", data |-> Bytes(ROX_MAGIC \o compressed.data)],
              chart |-> de.input]

\* chart.validate()?; delta_encode_notes; rkyv::to_bytes; compress; magic ++ compressed
encode(c) ==
    LET v == validate(c)
        de == delta_encode_notes(c)
        encoded == to_bytes(de.result)
        compressed == compress(encoded)
    IN  IF v.kind # "Ok" THEN [res |-> v, chart |-> c]
        ELSE IF de.panic THEN [res |-> PanicRes, chart |-> de.input]
        ELSE IF compressed.kind # "Ok" THEN [res |-> compressed, chart |-> de.input]
        ELSE [res |-> [kind |-> "Ok", data |-> Bytes(ROX_MAGIC \o compressed.data)],
              chart |-> de.input]

\* ------------------------------------------------------------------------
\* RoxCodec::decode (src/codec/formats/rox/decoder.rs)
\* ------------------------------------------------------------------------
MAX_FILE_SIZE == 100 * 1024 * 1024

\* for note in &mut chart.notes { accumulated_time += note.time_us; note.time_us = accumulated_time }
RECURSIVE delta_decode_loop(_, _)
delta_decode_loop(notes, accumulated_time) ==
    IF notes = <<>> THEN [panic |-> FALSE, notes |-> <<>>]
    ELSE LET acc == I64Arith(accumulated_time + Head(notes).time_us)
             rest == delta_decode_loop(Tail(notes), acc.val)
         IN  IF acc.panic \/ rest.panic THEN [panic |-> TRUE, notes |-> <<>>]
             ELSE [panic |-> FALSE,
                   notes |-> <<[Head(notes) EXCEPT !.time_us = acc.val]>> \o rest.notes]

delta_decode_notes(c) ==
    LET r == delta_decode_loop(c.notes, 0)
    IN  [panic |-> r.panic, chart |-> [c EXCEPT !.notes = r.notes]]

\* A decoder that looks at the size only after it has decompressed.
decode_size_check_late(data) ==
    LET decompressed == decompress(Skip(data, 4))
        archived == from_bytes_rkyv(decompressed.data)
        restored == delta_decode_notes(archived.chart)
    IN  IF data_len(data) < 4 \/ Prefix(data, 4) # ROX_MAGIC
        THEN [res |-> [kind |-> "InvalidFormat", reason |-> "missing magic bytes"], log |-> <<>>]
        ELSE IF decompressed.kind # "Ok"
        THEN [res |-> decompressed, log |-> <<"decompress">>]
        ELSE IF data_len(data) > MAX_FILE_SIZE
        THEN [res |-> [kind |-> "InvalidFormat", reason |-> "File too large"],
              log |-> <<"decompress">>]
        ELSE IF archived.kind # "Ok"
        THEN [res |-> archived, log |-> <<"decompress", "from_bytes">>]
        ELSE IF restored.panic
        THEN [res |-> PanicRes, log |-> <<"decompress", "from_bytes", "delta_decode_notes">>]
        ELSE [res |-> [kind |-> "Ok", chart |-> restored.chart],
              log |-> <<"decompress", "from_bytes", "delta_decode_notes">>]

decode(data) ==
    LET decompressed == decompress(Skip(data, 4))
        archived == from_bytes_rkyv(decompressed.data)
        restored == delta_decode_notes(archived.chart)
    IN  IF data_len(data) < 4 \/ Prefix(data, 4) # ROX_MAGIC
        THEN [res |-> [kind |-> "InvalidFormat", reason |-> "missing magic bytes"], log |-> <<>>]
        ELSE IF data_len(data) > MAX_FILE_SIZE
        THEN [res |-> [kind |-> "InvalidFormat", reason |-> "File too large"], log |-> <<>>]
        ELSE IF decompressed.kind # "Ok"
        THEN [res |-> decompressed, log |-> <<"decompress">>]
        ELSE IF archived.kind # "Ok"
        THEN [res |-> archived, log |-> <<"decompress", "from_bytes">>]
        ELSE IF restored.panic
        THEN [res |-> PanicRes, log |-> <<"decompress", "from_bytes", "delta_decode_notes">>]
        ELSE [res |-> [kind |-> "Ok", chart |-> restored.chart],
              log |-> <<"decompress", "from_bytes", "delta_decode_notes">>]

\* ------------------------------------------------------------------------
\* Inputs
\* ------------------------------------------------------------------------
KeyCounts == {1, 2}

NoteInputs ==
    {MkNote(t, Tap, None, 0) : t \in {MinI64, 0, MaxI64}}
    \cup {MkNote(t, Tap, None, 1) : t \in {-1, 1}}
    \cup {MkNote(t, Hold(1), None, 0) : t \in {-1, MaxI64}}
    \cup {MkNote(0, Hold(0), None, 0), MkNote(0, Burst(1), None, 0),
          MkNote(1, Mine, Some(0), 0)}

TimingPointInputs == {TimingPoint_bpm(0, 120000), TimingPoint_sv(-1, 1500)}

\* Raw inputs of decode: heads with and without the magic, alone or followed by
\* zero bytes up to and beyond the size limit.
RawHeads ==
    {<<>>, <<82, 79>>, <<82, 79, 88>>, ROX_MAGIC, <<0, 0, 0, 0, 1>>, <<82, 79, 88, 1, 0>>,
     ROX_MAGIC \o <<1>>, ROX_MAGIC \o ZSTD_MAGIC}
RawPads == {0, 1, MAX_FILE_SIZE - 4, MAX_FILE_SIZE - 3, MAX_FILE_SIZE}
RawInputs == {[bytes |-> h, pad |-> p] : h \in RawHeads, p \in RawPads}

NoResult == [kind |-> "none"]

\* ------------------------------------------------------------------------
\* Operations
\* ------------------------------------------------------------------------
Init ==
    /\ overflow_checks \in BOOLEAN
    /\ \E k \in KeyCounts : chart = RoxChart_new(k)
    /\ pc = "build"
    /\ before = NoResult
    /\ vres = NoResult
    /\ eres = NoResult
    /\ dres = NoResult
    /\ io_log = <<>>
    /\ rt = NoResult
    /\ doc = NoResult
    /\ ares = NoResult
    /\ calls = <<>>
    /\ tin = NoResult
    /\ tout = NoResult

\* chart.metadata.is_coop = true
SetCoop ==
    /\ pc = "build"
    /\ ~chart.metadata.is_coop
    /\ chart' = [chart EXCEPT !.metadata.is_coop = TRUE]
    /\ UNCHANGED <<overflow_checks, pc, before, vres, eres, dres, io_log, rt, auto_vars, tr_vars>>

\* chart.notes.push(note)
PushNote ==
    /\ pc = "build"
    /\ Len(chart.notes) < MaxNotes
    /\ \E n \in NoteInputs : chart' = [chart EXCEPT !.notes = Append(@, n)]
    /\ UNCHANGED <<overflow_checks, pc, before, vres, eres, dres, io_log, rt, auto_vars, tr_vars>>

\* chart.timing_points.push(tp)
PushTimingPoint ==
    /\ pc = "build"
    /\ Len(chart.timing_points) < MaxTimingPoints
    /\ \E tp \in TimingPointInputs : chart' = [chart EXCEPT !.timing_points = Append(@, tp)]
    /\ UNCHANGED <<overflow_checks, pc, before, vres, eres, dres, io_log, rt, auto_vars, tr_vars>>

\* chart.validate()
Validate ==
    /\ pc = "build"
    /\ pc' = "validated"
    /\ before' = chart
    /\ vres' = validate(chart)
    /\ UNCHANGED <<overflow_checks, chart, eres, dres, io_log, rt, auto_vars, tr_vars>>

\* RoxCodec::encode(&chart)
Encode ==
    /\ pc = "build"
    /\ pc' = "encoded"
    /\ before' = chart
    /\ eres' = encode(chart).res
    /\ chart' = encode(chart).chart
    /\ UNCHANGED <<overflow_checks, vres, dres, io_log, rt, auto_vars, tr_vars>>

\* RoxCodec::decode(&encoded), on the bytes encode returned
Decode ==
    /\ pc = "encoded"
    /\ eres.kind = "Ok"
    /\ pc' = "decoded"
    /\ dres' = decode(eres.data).res
    /\ io_log' = decode(eres.data).log
    /\ UNCHANGED <<overflow_checks, chart, before, vres, eres, rt, auto_vars, tr_vars>>

\* RoxCodec::decode(data), on bytes that come from elsewhere (called by a
\* program that has built no chart of its own)
DecodeRaw ==
    /\ pc = "build"
    /\ chart = RoxChart_new(chart.metadata.key_count)
    /\ \E d \in RawInputs :
        /\ before' = d
        /\ dres' = decode(d).res
        /\ io_log' = decode(d).log
    /\ pc' = "raw_decoded"
    /\ UNCHANGED <<overflow_checks, chart, vres, eres, rt, auto_vars, tr_vars>>

\* delta_decode_notes(&mut delta_encode_notes(&c)), on the caller's chart and then
\* again on each round trip's own output
DeltaRoundTrip ==
    /\ pc \in {"build", "delta"}
    /\ pc = "delta" => (~rt.panic /\ rt.rounds < MaxRounds)
    /\ LET c == IF pc = "build" THEN chart ELSE rt.chart
           de == delta_encode_notes(c)
           dd == delta_decode_notes(de.result)
       IN  rt' = [panic |-> de.panic \/ dd.panic,
                  input |-> c,
                  delta |-> IF de.panic THEN c ELSE de.result,
                  chart |-> IF de.panic \/ dd.panic THEN c ELSE dd.chart,
                  rounds |-> IF pc = "build" THEN 1 ELSE rt.rounds + 1]
    /\ pc' = "delta"
    /\ before' = IF pc = "build" THEN chart ELSE before
    /\ UNCHANGED <<overflow_checks, chart, vres, eres, dres, io_log, auto_vars, tr_vars>>

Next ==
    \/ SetCoop
    \/ PushNote
    \/ PushTimingPoint
    \/ Validate
    \/ Encode
    \/ Decode
    \/ DecodeRaw
    \/ DeltaRoundTrip

Spec == Init /\ [][Next]_vars

\* ========================================================================
\* The auto-detecting dispatcher (src/codec/auto/decode.rs) and the decoders'
\* entry points (src/codec/formats/*), built with the "compression" feature
\* ========================================================================

\* A document is its bytes.  The model keeps of them what the decoders read:
\*   bytes  - the leading bytes and the length (read by RoxCodec::decode and by
\*            the size checks),
\*   utf8   - whether std::str::from_utf8 accepts the data,
\*   lines  - the lines content.lines() yields,
\*   parses - the formats whose parser (the StepMania chart scanner, serde_yaml,
\*            serde_json) accepts the content.
\* A line is a section header "[name]", a "key: value" line or any other text.
Header(name) == [kind |-> "header", name |-> name, value |-> ""]
KV(key, value) == [kind |-> "kv", name |-> key, value |-> value]
Plain(text) == [kind |-> "plain", name |-> text, value |-> ""]

\* str::parse::<u8>() on the trimmed value
parse_u8(value) ==
    CASE value = "0" -> Some(0)
      [] value = "1" -> Some(1)
      [] value = "2" -> Some(2)
      [] value = "3" -> Some(3)
      [] OTHER -> None

\* for line in content.lines() { if let Some(value) = line.strip_prefix("Mode:") && let Ok(mode) = parse
\*   { return mode }  if line == "[Metadata] section" { break } }  3
RECURSIVE detect_osu_mode_scan(_)
detect_osu_mode_scan(lines) ==
    IF lines = <<>> THEN 3
    ELSE LET line == Head(lines)
         IN  IF line.kind = "kv" /\ line.name = "Mode" /\ parse_u8(line.value) # None
             THEN parse_u8(line.value)[1]
             ELSE IF line = Plain("[Metadata] section") THEN 3
             ELSE detect_osu_mode_scan(Tail(lines))

detect_osu_mode(d) ==
    IF ~d.utf8 THEN 3 ELSE detect_osu_mode_scan(d.lines)

InvalidFormat(reason) == [kind |-> "InvalidFormat", reason |-> reason]
Decoded(decoder) == [kind |-> "Ok", chart |-> [decoded_by |-> decoder]]

\* const MAX_FILE_SIZE of the text parsers (osu, sm, qua, fnf, jrox, yrox)
PARSER_MAX_FILE_SIZE == 100 * 1024 * 1024

\* osu parser: process_line over the lines; general.mode is set by a "Mode" key
\* in the [General] section (parse_field: the default 0 when it does not parse).
OsuSections ==
    {"General", "Editor", "Metadata", "Difficulty", "Events", "TimingPoints", "HitObjects"}
RECURSIVE osu_parse_mode(_, _, _)
osu_parse_mode(lines, section, mode) ==
    IF lines = <<>> THEN mode
    ELSE LET line == Head(lines)
         IN  IF line.kind = "header"
             THEN osu_parse_mode(Tail(lines),
                                 IF line.name \in OsuSections THEN line.name ELSE "None", mode)
             ELSE IF section = "General" /\ line.kind = "kv" /\ line.name = "Mode"
             THEN osu_parse_mode(Tail(lines), section,
                                 IF parse_u8(line.value) # None THEN parse_u8(line.value)[1] ELSE 0)
             ELSE osu_parse_mode(Tail(lines), section, mode)

\* OsuDecoder::decode: parser::parse(data)?; if beatmap.general.mode != 3 { Err(InvalidFormat) }
OsuDecoder_decode(d) ==
    IF data_len(d.bytes) > PARSER_MAX_FILE_SIZE THEN InvalidFormat("File too large")
    ELSE IF ~d.utf8 THEN InvalidFormat("Invalid UTF-8")
    ELSE IF osu_parse_mode(d.lines, "None", 0) # 3 THEN InvalidFormat("Not a mania beatmap")
    ELSE Decoded("OsuDecoder")

\* TaikoDecoder::decode: taiko::parser::parse fails on invalid UTF-8 only
TaikoDecoder_decode(d) ==
    IF ~d.utf8 THEN InvalidFormat("Invalid UTF-8") ELSE Decoded("TaikoDecoder")

\* SmDecoder::decode: parser::parse(data)?; sm.charts.first().ok_or(InvalidFormat)
SmDecoder_decode(d) ==
    IF data_len(d.bytes) > PARSER_MAX_FILE_SIZE THEN InvalidFormat("File too large")
    ELSE IF ~d.utf8 THEN InvalidFormat("Invalid UTF-8")
    ELSE IF "sm" \notin d.parses THEN InvalidFormat("No charts found in SM file")
    ELSE Decoded("SmDecoder")

\* QuaDecoder::decode: size, UTF-8, serde_yaml::from_str
QuaDecoder_decode(d) ==
    IF data_len(d.bytes) > PARSER_MAX_FILE_SIZE THEN InvalidFormat("File too large")
    ELSE IF ~d.utf8 THEN InvalidFormat("Invalid UTF-8")
    ELSE IF "qua" \notin d.parses THEN InvalidFormat("Invalid YAML")
    ELSE Decoded("QuaDecoder")

\* FnfDecoder::decode: size, UTF-8, serde_json::from_str
FnfDecoder_decode(d) ==
    IF data_len(d.bytes) > PARSER_MAX_FILE_SIZE THEN InvalidFormat("File too large")
    ELSE IF ~d.utf8 THEN InvalidFormat("Invalid UTF-8")
    ELSE IF "fnf" \notin d.parses THEN InvalidFormat("Invalid JSON")
    ELSE Decoded("FnfDecoder")

\* JroxDecoder::decode: size, serde_json::from_slice
JroxDecoder_decode(d) ==
    IF data_len(d.bytes) > PARSER_MAX_FILE_SIZE THEN InvalidFormat("File too large")
    ELSE IF ~d.utf8 \/ "jrox" \notin d.parses THEN InvalidFormat("JSON error")
    ELSE Decoded("JroxDecoder")

\* YroxDecoder::decode: size, serde_yaml::from_slice
YroxDecoder_decode(d) ==
    IF data_len(d.bytes) > PARSER_MAX_FILE_SIZE THEN InvalidFormat("File too large")
    ELSE IF ~d.utf8 \/ "yrox" \notin d.parses THEN InvalidFormat("YROX parse error")
    ELSE Decoded("YroxDecoder")

\* A dispatch that sends mode 1 to the mania decoder and mode 3 to the taiko decoder.
decode_osu_by_mode_swapped(d) ==
    LET mode == detect_osu_mode(d)
    IN  IF mode = 3 THEN [res |-> TaikoDecoder_decode(d), calls |-> <<"TaikoDecoder">>]
        ELSE IF mode = 1 THEN [res |-> OsuDecoder_decode(d), calls |-> <<"OsuDecoder">>]
        ELSE [res |-> [kind |-> "UnsupportedFormat", mode |-> mode], calls |-> <<>>]

\* match detect_osu_mode(data) { 1 => TaikoDecoder::decode, 3 => OsuDecoder::decode,
\*                               mode => Err(UnsupportedFormat) }
decode_osu_by_mode(d) ==
    LET mode == detect_osu_mode(d)
    IN  IF mode = 1 THEN [res |-> TaikoDecoder_decode(d), calls |-> <<"TaikoDecoder">>]
        ELSE IF mode = 3 THEN [res |-> OsuDecoder_decode(d), calls |-> <<"OsuDecoder">>]
        ELSE [res |-> [kind |-> "UnsupportedFormat", mode |-> mode], calls |-> <<>>]

\* A dispatcher that tries StepMania before osu.
from_bytes_sm_before_osu(d) ==
    LET r1 == decode(d.bytes).res
        r2 == SmDecoder_decode(d)
        r3 == decode_osu_by_mode(d).res
        r4 == QuaDecoder_decode(d)
        r5 == FnfDecoder_decode(d)
        r6 == JroxDecoder_decode(d)
        r7 == YroxDecoder_decode(d)
    IN  IF r1.kind \in {"Ok", "Panic"} THEN [res |-> r1, calls |-> <<"RoxCodec">>]
        ELSE IF r2.kind = "Ok" THEN [res |-> r2, calls |-> <<"RoxCodec", "SmDecoder">>]
        ELSE IF r3.kind = "Ok"
        THEN [res |-> r3, calls |-> <<"RoxCodec", "SmDecoder", "decode_osu_by_mode">>]
        ELSE IF r4.kind = "Ok"
        THEN [res |-> r4,
              calls |-> <<"RoxCodec", "SmDecoder", "decode_osu_by_mode", "QuaDecoder">>]
        ELSE IF r5.kind = "Ok"
        THEN [res |-> r5,
              calls |-> <<"RoxCodec", "SmDecoder", "decode_osu_by_mode", "QuaDecoder",
                          "FnfDecoder">>]
        ELSE IF r6.kind = "Ok"
        THEN [res |-> r6,
              calls |-> <<"RoxCodec", "SmDecoder", "decode_osu_by_mode", "QuaDecoder",
                          "FnfDecoder", "JroxDecoder">>]
        ELSE [res |-> IF r7.kind = "Ok" THEN r7
                      ELSE InvalidFormat("no format decoder succeeded"),
              calls |-> <<"RoxCodec", "SmDecoder", "decode_osu_by_mode", "QuaDecoder",
                          "FnfDecoder", "JroxDecoder", "YroxDecoder">>]

\* A dispatcher that hands the caller the error of the last decoder it tried.
from_bytes_keep_last_error(d) ==
    LET r1 == decode(d.bytes).res
        r2 == decode_osu_by_mode(d).res
        r3 == SmDecoder_decode(d)
        r4 == QuaDecoder_decode(d)
        r5 == FnfDecoder_decode(d)
        r6 == JroxDecoder_decode(d)
        r7 == YroxDecoder_decode(d)
    IN  IF r1.kind \in {"Ok", "Panic"} THEN [res |-> r1, calls |-> <<"RoxCodec">>]
        ELSE IF r2.kind = "Ok" THEN [res |-> r2, calls |-> <<"RoxCodec", "decode_osu_by_mode">>]
        ELSE IF r3.kind = "Ok"
        THEN [res |-> r3, calls |-> <<"RoxCodec", "decode_osu_by_mode", "SmDecoder">>]
        ELSE IF r4.kind = "Ok"
        THEN [res |-> r4,
              calls |-> <<"RoxCodec", "decode_osu_by_mode", "SmDecoder", "QuaDecoder">>]
        ELSE IF r5.kind = "Ok"
        THEN [res |-> r5,
              calls |-> <<"RoxCodec", "decode_osu_by_mode", "SmDecoder", "QuaDecoder",
                          "FnfDecoder">>]
        ELSE IF r6.kind = "Ok"
        THEN [res |-> r6,
              calls |-> <<"RoxCodec", "decode_osu_by_mode", "SmDecoder", "QuaDecoder",
                          "FnfDecoder", "JroxDecoder">>]
        ELSE [res |-> r7,
              calls |-> <<"RoxCodec", "decode_osu_by_mode", "SmDecoder", "QuaDecoder",
                          "FnfDecoder", "JroxDecoder", "YroxDecoder">>]

\* from_bytes: match X::decode(data) { Ok(chart) => return Ok(chart), Err(e) => debug!(..) }
\* for RoxCodec, decode_osu_by_mode, SmDecoder, QuaDecoder, FnfDecoder, JroxDecoder,
\* YroxDecoder; then Err(InvalidFormat).  `calls` lists the ones it called.
from_bytes(d) ==
    LET r1 == decode(d.bytes).res
        r2 == decode_osu_by_mode(d).res
        r3 == SmDecoder_decode(d)
        r4 == QuaDecoder_decode(d)
        r5 == FnfDecoder_decode(d)
        r6 == JroxDecoder_decode(d)
        r7 == YroxDecoder_decode(d)
    IN  IF r1.kind \in {"Ok", "Panic"} THEN [res |-> r1, calls |-> <<"RoxCodec">>]
        ELSE IF r2.kind = "Ok" THEN [res |-> r2, calls |-> <<"RoxCodec", "decode_osu_by_mode">>]
        ELSE IF r3.kind = "Ok"
        THEN [res |-> r3, calls |-> <<"RoxCodec", "decode_osu_by_mode", "SmDecoder">>]
        ELSE IF r4.kind = "Ok"
        THEN [res |-> r4,
              calls |-> <<"RoxCodec", "decode_osu_by_mode", "SmDecoder", "QuaDecoder">>]
        ELSE IF r5.kind = "Ok"
        THEN [res |-> r5,
              calls |-> <<"RoxCodec", "decode_osu_by_mode", "SmDecoder", "QuaDecoder",
                          "FnfDecoder">>]
        ELSE IF r6.kind = "Ok"
        THEN [res |-> r6,
              calls |-> <<"RoxCodec", "decode_osu_by_mode", "SmDecoder", "QuaDecoder",
                          "FnfDecoder", "JroxDecoder">>]
        ELSE [res |-> IF r7.kind = "Ok" THEN r7
                      ELSE InvalidFormat("no format decoder succeeded"),
              calls |-> <<"RoxCodec", "decode_osu_by_mode", "SmDecoder", "QuaDecoder",
                          "FnfDecoder", "JroxDecoder", "YroxDecoder">>]

\* from_string: the same chain on data.as_bytes(), without the binary codec
from_string(d) ==
    LET r2 == decode_osu_by_mode(d).res
        r3 == SmDecoder_decode(d)
        r4 == QuaDecoder_decode(d)
        r5 == FnfDecoder_decode(d)
        r6 == JroxDecoder_decode(d)
        r7 == YroxDecoder_decode(d)
    IN  IF r2.kind = "Ok" THEN [res |-> r2, calls |-> <<"decode_osu_by_mode">>]
        ELSE IF r3.kind = "Ok" THEN [res |-> r3, calls |-> <<"decode_osu_by_mode", "SmDecoder">>]
        ELSE IF r4.kind = "Ok"
        THEN [res |-> r4, calls |-> <<"decode_osu_by_mode", "SmDecoder", "QuaDecoder">>]
        ELSE IF r5.kind = "Ok"
        THEN [res |-> r5,
              calls |-> <<"decode_osu_by_mode", "SmDecoder", "QuaDecoder", "FnfDecoder">>]
        ELSE IF r6.kind = "Ok"
        THEN [res |-> r6,
              calls |-> <<"decode_osu_by_mode", "SmDecoder", "QuaDecoder", "FnfDecoder",
                          "JroxDecoder">>]
        ELSE [res |-> IF r7.kind = "Ok" THEN r7
                      ELSE InvalidFormat("no format decoder succeeded"),
              calls |-> <<"decode_osu_by_mode", "SmDecoder", "QuaDecoder", "FnfDecoder",
                          "JroxDecoder", "YroxDecoder">>]

\* decode_with_format: match format { Rox => RoxCodec, Jrox => JroxDecoder, Yrox => YroxDecoder,
\*   Osu => OsuDecoder, Taiko => TaikoDecoder, Sm => SmDecoder, Qua => QuaDecoder, Fnf => FnfDecoder }
InputFormat == {"Rox", "Jrox", "Yrox", "Osu", "Taiko", "Sm", "Qua", "Fnf"}
decode_with_format(d, format) ==
    CASE format = "Rox" -> [res |-> decode(d.bytes).res, calls |-> <<"RoxCodec">>]
      [] format = "Jrox" -> [res |-> JroxDecoder_decode(d), calls |-> <<"JroxDecoder">>]
      [] format = "Yrox" -> [res |-> YroxDecoder_decode(d), calls |-> <<"YroxDecoder">>]
      [] format = "Osu" -> [res |-> OsuDecoder_decode(d), calls |-> <<"OsuDecoder">>]
      [] format = "Taiko" -> [res |-> TaikoDecoder_decode(d), calls |-> <<"TaikoDecoder">>]
      [] format = "Sm" -> [res |-> SmDecoder_decode(d), calls |-> <<"SmDecoder">>]
      [] format = "Qua" -> [res |-> QuaDecoder_decode(d), calls |-> <<"QuaDecoder">>]
      [] OTHER -> [res |-> FnfDecoder_decode(d), calls |-> <<"FnfDecoder">>]

\* ------------------------------------------------------------------------
\* Documents handed to the dispatcher
\* ------------------------------------------------------------------------
\* Longest list of lines written into a text document.
MaxLines == 2

LineInputs ==
    {Header("General"), Header("Metadata"), Plain("[Metadata] section"),
     KV("Mode", "0"), KV("Mode", "1"), KV("Mode", "3"), KV("Mode", "mania")}

\* What the parsers make of the rest of a text document: nothing, a StepMania
\* file, a Quaver file, an FNF file, a JROX file (JSON, which is YAML too), a
\* YROX file.
ParsesInputs == {{}, {"sm"}, {"qua"}, {"fnf"}, {"jrox", "yrox"}, {"yrox"}}

SampleChart ==
    [RoxChart_new(1) EXCEPT
        !.timing_points = <<TimingPoint_bpm(0, 120000)>>,
        !.notes = <<MkNote(0, Tap, None, 0), MkNote(1, Mine, Some(0), 0)>>]

\* Text documents, small and larger than the size limit.
TextDocs ==
    {[bytes |-> [bytes |-> <<>>, pad |-> p], utf8 |-> TRUE, lines |-> <<>>, parses |-> ps] :
        p \in {0, PARSER_MAX_FILE_SIZE + 1}, ps \in ParsesInputs}

\* Binary documents: charts the binary encoder wrote, the bare magic, the magic
\* with a truncated frame, and bytes that are no format at all.
BinaryDocs ==
    {[bytes |-> b, utf8 |-> FALSE, lines |-> <<>>, parses |-> {}] :
        b \in {encode(RoxChart_new(2)).res.data, encode(SampleChart).res.data,
               Bytes(ROX_MAGIC \o <<255>>), Bytes(<<255, 254>>)}}

\* ------------------------------------------------------------------------
\* Documents written by the text encoders
\* ------------------------------------------------------------------------
\* Fields of QuaChart, under their serde names.
QuaChartKeys ==
    {"AudioFile", "SongPreviewTime", "BackgroundFile", "BannerFile", "MapId", "MapSetId",
     "Mode", "Title", "Artist", "Source", "Tags", "Creator", "DifficultyName", "Description",
     "BPMDoesNotAffectScrollVelocity", "InitialScrollVelocity", "EditorLayers",
     "CustomAudioSamples", "SoundEffects", "TimingPoints", "SliderVelocities", "HitObjects"}

\* Fields of RoxChart; the derive gives none of them a default.
RoxChartKeys == {"version", "metadata", "timing_points", "notes", "hitsounds"}

\* Field of FnfChart; it has no default.
FnfChartKeys == {"song"}

\* The body of a text document: its syntax ("json", "yaml", "msd" for the
\* StepMania tag list, "ini" for the osu sections), the keys of its top-level
\* mapping and the type whose serializer wrote the values under those keys.
Body(syntax, keys, schema) == [syntax |-> syntax, keys |-> keys, schema |-> schema]

\* qua::parser::parse: serde_yaml::from_str::<QuaChart>.  QuaChart is
\* #[serde(default)]: no key is required, a key it does not know is skipped, a
\* key it knows must hold a value of the field's type.  JSON is YAML.
qua_parse(body) ==
    /\ body.syntax \in {"yaml", "json"}
    /\ (body.keys \cap QuaChartKeys # {} => body.schema = "QuaChart")

\* fnf::parser::parse: serde_json::from_str::<FnfChart>; `song` is required.
fnf_parse(body) ==
    /\ body.syntax = "json"
    /\ FnfChartKeys \subseteq body.keys
    /\ body.schema = "FnfChart"

\* JroxDecoder::decode: serde_json::from_slice::<RoxChart>
jrox_parse(body) ==
    /\ body.syntax = "json"
    /\ RoxChartKeys \subseteq body.keys
    /\ body.schema = "RoxChart"

\* YroxDecoder::decode: serde_yaml::from_slice::<RoxChart>
yrox_parse(body) ==
    /\ body.syntax \in {"yaml", "json"}
    /\ RoxChartKeys \subseteq body.keys
    /\ body.schema = "RoxChart"

\* sm::parser::parse_charts: content.split("#NOTES:").skip(1)
sm_parse(body) == body.syntax = "msd"

\* The parsers that accept a body.
ParsersAccepting(body) ==
    {p \in {"sm", "qua", "fnf", "jrox", "yrox"} :
        CASE p = "sm" -> sm_parse(body)
          [] p = "qua" -> qua_parse(body)
          [] p = "fnf" -> fnf_parse(body)
          [] p = "jrox" -> jrox_parse(body)
          [] OTHER -> yrox_parse(body)}

TextDoc(lines, body) ==
    [bytes |-> [bytes |-> <<>>, pad |-> 0], utf8 |-> TRUE, lines |-> lines,
     parses |-> ParsersAccepting(body)]

\* The textual output formats of encode_with_format.
TextOutputFormat == {"Jrox", "Yrox", "Osu", "Sm", "Qua", "Fnf"}

\* encode_with_format: match format { Jrox => JroxEncoder (serde_json::to_vec_pretty(chart)),
\*   Yrox => YroxEncoder (serde_yaml::to_string(chart)), Osu => OsuEncoder ("osu file format
\*   v14", [General], AudioFilename, Mode: 3, [Metadata] ...), Sm => SmEncoder (#TITLE ...
\*   #NOTES), Qua => QuaEncoder (serde_yaml::to_string(&qua)), Fnf => FnfEncoder
\*   (serde_json::to_string_pretty(&FnfChart { song })) }
encode_with_format(format) ==
    CASE format = "Jrox" -> TextDoc(<<>>, Body("json", RoxChartKeys, "RoxChart"))
      [] format = "Yrox" -> TextDoc(<<>>, Body("yaml", RoxChartKeys, "RoxChart"))
      [] format = "Osu" ->
            TextDoc(<<Plain("osu file format v14"), Header("General"),
                      KV("AudioFilename", "audio.mp3"), KV("Mode", "3"), Header("Metadata")>>,
                    Body("ini", {}, "Beatmap"))
      [] format = "Sm" -> TextDoc(<<Plain("#TITLE:;"), Plain("#NOTES:")>>, Body("msd", {}, "SmFile"))
      [] format = "Qua" ->
            TextDoc(<<KV("AudioFile", "audio.mp3"), KV("Mode", "Keys4")>>,
                    Body("yaml", QuaChartKeys, "QuaChart"))
      [] OTHER -> TextDoc(<<>>, Body("json", FnfChartKeys, "FnfChart"))

InitAuto ==
    /\ overflow_checks \in BOOLEAN
    /\ chart = RoxChart_new(1)
    /\ pc = "write"
    /\ before = NoResult
    /\ vres = NoResult
    /\ eres = NoResult
    /\ dres = NoResult
    /\ io_log = <<>>
    /\ rt = NoResult
    /\ doc \in TextDocs \cup BinaryDocs
    /\ ares = NoResult
    /\ calls = <<>>
    /\ tin = NoResult
    /\ tout = NoResult

\* The caller writes one more line into a text document.
WriteLine ==
    /\ pc = "write"
    /\ doc.utf8
    /\ Len(doc.lines) < MaxLines
    /\ \E l \in LineInputs : doc' = [doc EXCEPT !.lines = Append(@, l)]
    /\ UNCHANGED <<overflow_checks, pc, ares, calls, codec_vars, tr_vars>>

\* from_bytes(&data)
FromBytes ==
    /\ pc = "write"
    /\ pc' = "from_bytes"
    /\ ares' = from_bytes(doc).res
    /\ calls' = from_bytes(doc).calls
    /\ UNCHANGED <<overflow_checks, doc, codec_vars, tr_vars>>

\* decode_osu_by_mode(&data), as auto_decode calls it on a .osu file
DecodeOsuByMode ==
    /\ pc = "write"
    /\ pc' = "osu_by_mode"
    /\ ares' = decode_osu_by_mode(doc).res
    /\ calls' = decode_osu_by_mode(doc).calls
    /\ UNCHANGED <<overflow_checks, doc, codec_vars, tr_vars>>

\* detect_osu_mode(data)
DetectOsuMode ==
    /\ pc = "write"
    /\ pc' = "probed"
    /\ ares' = [kind |-> "mode", mode |-> detect_osu_mode(doc)]
    /\ calls' = <<>>
    /\ UNCHANGED <<overflow_checks, doc, codec_vars, tr_vars>>

\* from_string(&content): the data is a &str, hence valid UTF-8
FromString ==
    /\ pc = "write"
    /\ doc.utf8
    /\ pc' = "from_string"
    /\ ares' = from_string(doc).res
    /\ calls' = from_string(doc).calls
    /\ UNCHANGED <<overflow_checks, doc, codec_vars, tr_vars>>

\* decode_with_format(&data, format)
DecodeWithFormat ==
    /\ pc = "write"
    /\ pc' = "with_format"
    /\ \E format \in InputFormat :
        /\ ares' = decode_with_format(doc, format).res
        /\ calls' = decode_with_format(doc, format).calls
    /\ UNCHANGED <<overflow_checks, doc, codec_vars, tr_vars>>

\* encode_with_format(&chart, format): the caller keeps the bytes as the document
EncodeWithFormat ==
    /\ pc = "write"
    /\ \E format \in TextOutputFormat : doc' = encode_with_format(format)
    /\ UNCHANGED <<overflow_checks, pc, ares, calls, codec_vars, tr_vars>>

NextAuto ==
    \/ WriteLine
    \/ EncodeWithFormat
    \/ DecodeWithFormat
    \/ FromBytes
    \/ FromString
    \/ DecodeOsuByMode
    \/ DetectOsuMode

SpecAuto == InitAuto /\ [][NextAuto]_vars

\* ========================================================================
\* The format translators (src/codec/formats/{osu,sm,taiko,qua,fnf})
\* ========================================================================

\* Rust's integer `/`: the quotient truncated toward zero.
TruncDiv(a, b) == IF a >= 0 THEN a \div b ELSE -((-a) \div b)

\* Largest key count the column mapping is exercised with.
MaxKeyCount == 18

\* osu encoder, column_to_x: (2 * column + 1) * 256 / key_count in i32
column_to_x_left_edge(column, key_count) == TruncDiv(column * 512, key_count)

column_to_x(column, key_count) == TruncDiv((2 * column + 1) * 256, key_count)

\* OsuHitObject::column: ((self.x * key_count) / 512) as u8
OsuHitObject_column(x, key_count) == TruncDiv(x * key_count, 512) % 256

\* OsuHitObject::x: "X position (0-512)"
OsuMaxX == 512

\* ------------------------------------------------------------------------
\* osu!mania: OsuEncoder::encode, the hit-object parser, OsuDecoder::from_beatmap
\* ------------------------------------------------------------------------
\* Width, in bits, of the integer that stands for the i32 a time in milliseconds
\* is kept in.
MsBits == 8
MinI32 == -(2 ^ (MsBits - 1))
MaxI32 == (2 ^ (MsBits - 1)) - 1
\* `x as i32` on an i64: the low bits, in two's complement
CastI32(x) == ((x - MinI32) % (2 ^ MsBits)) + MinI32
\* An i32 `a + b` / `a - b` whose mathematical value is x: panics when the build
\* checks overflow, wraps when it does not.
I32Arith(x) ==
    IF MinI32 <= x /\ x <= MaxI32 THEN [panic |-> FALSE, val |-> x]
    ELSE IF overflow_checks THEN [panic |-> TRUE, val |-> 0]
    ELSE [panic |-> FALSE, val |-> CastI32(x)]

\* Hit-object lines "x,y,time,type,hitSound,extras".  end_time is the number
\* before the first colon of a hold's extras; sample holds the colon-separated
\* fields after it (of a tap: all of them): sampleSet, additions, customIndex,
\* volume, filename; the filename is a sequence of characters.
OsuHitObject(x, time, object_type, end_time, sample) ==
    [x |-> x, y |-> 192, time |-> time, object_type |-> object_type, hit_sound |-> 0,
     end_time |-> end_time, sample |-> sample]
NoSample == <<"0", "0", "0", "0", <<>>>>

\* OsuHitObject::is_hold: (object_type & 128) != 0
OsuHitObject_is_hold(ho) == (ho.object_type \div 128) % 2 = 1
\* OsuHitObject::duration_ms: end_time.map_or(0, |e| e - self.time)
OsuHitObject_duration_ms(ho) ==
    IF ho.end_time = None THEN [panic |-> FALSE, val |-> 0]
    ELSE I32Arith(ho.end_time[1] - ho.time)

\* write_hit_objects_section, one line per note, in the chart's order
write_hit_object(note, key_count) ==
    LET time_ms == CastI32(TruncDiv(note.time_us, 1000))
        x == column_to_x(note.column, key_count)
        end_time == I32Arith(time_ms + CastI32(TruncDiv(note.note_type.duration_us, 1000)))
    IN  IF note.note_type.tag = "Hold"
        THEN [panic |-> end_time.panic,
              line |-> OsuHitObject(x, time_ms, 128, Some(end_time.val), NoSample)]
        ELSE [panic |-> FALSE, line |-> OsuHitObject(x, time_ms, 1, None, NoSample)]

\* OsuEncoder::encode: of the document it writes, the "Mode: 3" line of [General],
\* the "CircleSize:" line of [Difficulty] and the [HitObjects] section.
OsuEncoder_encode(c) ==
    LET lines == [i \in 1..Len(c.notes) |-> write_hit_object(c.notes[i], c.metadata.key_count)]
    IN  IF \E i \in 1..Len(lines) : lines[i].panic THEN PanicRes
        ELSE [kind |-> "Ok",
              data |-> [mode |-> 3, circle_size |-> c.metadata.key_count,
                        hit_objects |-> [i \in 1..Len(lines) |-> lines[i].line]]]

\* Width, in bits, of the integer that stands for the u16 of a hitsound index.
HsBits == 2
\* `n as u16` on a usize
CastU16(n) == n % (2 ^ HsBits)

\* str::trim on a sequence of characters
RECURSIVE trim_start(_)
trim_start(str) ==
    IF str # <<>> /\ Head(str) = " " THEN trim_start(Tail(str)) ELSE str
RECURSIVE trim_end(_)
trim_end(str) ==
    IF str # <<>> /\ str[Len(str)] = " " THEN trim_end(SubSeq(str, 1, Len(str) - 1)) ELSE str
str_trim(str) == trim_end(trim_start(str))

\* u8::parse on a sample's volume field, filtered to 1..=100
parse_volume(v) ==
    CASE v = "70" -> Some(70)
      [] v = "100" -> Some(100)
      [] OTHER -> None

\* Hitsound::new / Hitsound::with_volume
Hitsound(file, volume) == [file |-> file, volume |-> volume]

\* The position of `file` in the hitsounds table (hitsound_map.get), counted from 0.
hitsound_map_get(hitsounds, file) ==
    LET At == {i \in 1..Len(hitsounds) : hitsounds[i].file = file}
    IN  IF At = {} THEN None ELSE Some(MinOf(At) - 1)

\* from_beatmap, the loop over beatmap.hit_objects: the notes pushed and the
\* hitsounds table filled so far
RECURSIVE convert_hit_objects(_, _, _, _)
convert_hit_objects(hos, key_count, notes, hitsounds) ==
    IF hos = <<>> THEN [panic |-> FALSE, notes |-> notes, hitsounds |-> hitsounds]
    ELSE LET ho == Head(hos)
             column == OsuHitObject_column(ho.x, key_count)
             time_us == ho.time * 1000
             dur == OsuHitObject_duration_ms(ho)
             note == IF OsuHitObject_is_hold(ho)
                     THEN MkNote(time_us, Hold(dur.val * 1000), None, column)
                     ELSE MkNote(time_us, Tap, None, column)
             filename == IF Len(ho.sample) >= 5 THEN str_trim(ho.sample[5]) ELSE <<>>
             known == hitsound_map_get(hitsounds, filename)
             volume == IF Len(ho.sample) >= 4 THEN parse_volume(ho.sample[4]) ELSE None
             table == IF filename = <<>> \/ known # None THEN hitsounds
                      ELSE Append(hitsounds, Hitsound(filename, volume))
             index == IF filename = <<>> THEN None
                      ELSE IF known # None THEN known
                      ELSE Some(CastU16(Len(hitsounds)))
         IN  IF OsuHitObject_is_hold(ho) /\ dur.panic
             THEN [panic |-> TRUE, notes |-> notes, hitsounds |-> hitsounds]
             ELSE convert_hit_objects(Tail(hos), key_count,
                                      Append(notes, [note EXCEPT !.hitsound_index = index]),
                                      table)

\* OsuDecoder::from_beatmap: key_count = circle_size as u8, the hit objects
\* converted, then chart.notes.sort_by_key(|n| n.time_us)
from_beatmap(beatmap) ==
    LET key_count == beatmap.circle_size % 256
        r == convert_hit_objects(beatmap.hit_objects, key_count, <<>>, <<>>)
    IN  IF r.panic THEN PanicRes
        ELSE [kind |-> "Ok",
              chart |-> [RoxChart_new(key_count) EXCEPT
                            !.notes = sort_by_key_time(r.notes), !.hitsounds = r.hitsounds]]

\* OsuDecoder::decode on a parsed document: mode != 3 is InvalidFormat
OsuDecoder_decode_parsed(beatmap) ==
    IF beatmap.mode # 3 THEN InvalidFormat("Not a mania beatmap")
    ELSE from_beatmap(beatmap)

\* Charts handed to the osu encoder
MaxOsuNotes == 2
OsuNoteInputs ==
    {MkNote(0, Tap, None, 0), MkNote(1500, Tap, None, 1), MkNote(-1500, Tap, None, 2),
     MkNote(999, Mine, None, 3), MkNote(2000, Burst(3000), None, 0),
     MkNote(1000, Hold(2500), None, 1), MkNote(3000, Hold(500), None, 3),
     MkNote(MaxI32 * 1000, Hold(1000), None, 2), MkNote((MaxI32 + 1) * 1000, Tap, None, 3)}
RECURSIVE SeqsUpTo(_, _)
SeqsUpTo(S, n) ==
    IF n = 0 THEN {<<>>}
    ELSE SeqsUpTo(S, n - 1) \cup {Append(q, x) : q \in SeqsUpTo(S, n - 1), x \in S}
OsuCharts ==
    {[RoxChart_new(k) EXCEPT !.timing_points = <<TimingPoint_bpm(0, 120000)>>, !.notes = ns] :
        k \in {4, 7}, ns \in SeqsUpTo(OsuNoteInputs, MaxOsuNotes)}

\* ------------------------------------------------------------------------
\* StepMania: SmEncoder::encode, the .sm parser, SmDecoder::from_chart
\* ------------------------------------------------------------------------
\* The f64 values of the beat and row computations, as exact fractions n/d in
\* lowest terms with d > 0.  Bpm values are in thousandths, as everywhere.
RECURSIVE Gcd(_, _)
Gcd(a, b) == IF b = 0 THEN a ELSE Gcd(b, a % b)
Abs(x) == IF x >= 0 THEN x ELSE -x
Rat(n, d) == LET g == Gcd(Abs(n), d) IN [n |-> n \div g, d |-> d \div g]
RatMul(p, q) ==
    LET g1 == Gcd(Abs(p.n), q.d)
        g2 == Gcd(Abs(q.n), p.d)
    IN  [n |-> (p.n \div g1) * (q.n \div g2), d |-> (p.d \div g2) * (q.d \div g1)]
Lcm(a, b) == (a \div Gcd(a, b)) * b
RatAdd(p, q) ==
    LET l == Lcm(p.d, q.d) IN Rat(p.n * (l \div p.d) + q.n * (l \div q.d), l)
RatSub(p, q) == RatAdd(p, [n |-> -q.n, d |-> q.d])
RatLess(p, q) ==
    LET l == Lcm(p.d, q.d) IN p.n * (l \div p.d) < q.n * (l \div q.d)
\* f64::round: to the nearest integer, halves away from zero
RatRound(p) ==
    IF p.n >= 0 THEN (2 * p.n + p.d) \div (2 * p.d) ELSE -((2 * (-p.n) + p.d) \div (2 * p.d))
\* f64::floor, f64::ceil, and `as i64` (toward zero)
RatFloor(p) == p.n \div p.d
RatCeil(p) == -((-p.n) \div p.d)
RatTrunc(p) == TruncDiv(p.n, p.d)

\* timing::ROWS_PER_BEAT, timing::ROWS_PER_MEASURE
ROWS_PER_BEAT == 48
ROWS_PER_MEASURE == 192

\* us_to_beats_at_bpm: seconds * bpm / 60
us_to_beats_at_bpm(us, bpm) == RatMul(Rat(us, 1000000), Rat(bpm, 60000))
\* timing::us_to_rows
us_to_rows(us, bpm) == RatMul(us_to_beats_at_bpm(us, bpm), Rat(ROWS_PER_BEAT, 1))
\* A rows_to_us that takes the 192 rows of a measure for those of a beat.
rows_to_us_per_measure(rows, bpm) ==
    RatTrunc(RatMul(RatMul(RatMul(rows, Rat(1, ROWS_PER_MEASURE)), Rat(60000, bpm)),
                    Rat(1000000, 1)))

\* timing::rows_to_us: ((rows / 48) / (bpm / 60) * 1_000_000.0) as i64
rows_to_us(rows, bpm) ==
    RatTrunc(RatMul(RatMul(RatMul(rows, Rat(1, ROWS_PER_BEAT)), Rat(60000, bpm)),
                    Rat(1000000, 1)))

\* us_to_beat_simple (and us_to_beat, the same walk): bpms is the list of
\* (time_us, bpm) of the non-inherited timing points
RECURSIVE us_to_beat_walk(_, _, _, _, _, _)
us_to_beat_walk(time_us, bpms, i, current_time_us, current_beat, current_bpm) ==
    IF i > Len(bpms) \/ bpms[i].time_us > time_us
    THEN RatAdd(current_beat, us_to_beats_at_bpm(time_us - current_time_us, current_bpm))
    ELSE us_to_beat_walk(time_us, bpms, i + 1, bpms[i].time_us,
             RatAdd(current_beat,
                    us_to_beats_at_bpm(bpms[i].time_us - current_time_us, current_bpm)),
             bpms[i].bpm)
us_to_beat_simple(time_us, bpms, start_time_us) ==
    IF bpms = <<>> THEN us_to_beats_at_bpm(time_us - start_time_us, 120000)
    ELSE us_to_beat_walk(time_us, bpms, 2, start_time_us, Rat(0, 1), bpms[1].bpm)

\* encode_measures: the events (time_us, column, char) of one note
note_events(note) ==
    LET ev(t, ch) == [time_us |-> t, column |-> note.column, ch |-> ch]
    IN  CASE note.note_type.tag = "Tap" -> <<ev(note.time_us, "1")>>
          [] note.note_type.tag = "Hold" ->
                <<ev(note.time_us, "2"), ev(note.time_us + note.note_type.duration_us, "3")>>
          [] note.note_type.tag = "Burst" ->
                <<ev(note.time_us, "4"), ev(note.time_us + note.note_type.duration_us, "3")>>
          [] OTHER -> <<ev(note.time_us, "M")>>
RECURSIVE all_note_events(_)
all_note_events(notes) ==
    IF notes = <<>> THEN <<>> ELSE note_events(Head(notes)) \o all_note_events(Tail(notes))

\* encode_measures, "Find the corresponding Head": the nearest earlier event of the
\* column, when it is a head; 0 when a tail comes first or there is none
RECURSIVE find_head(_, _, _)
find_head(events, j, col) ==
    IF j < 1 THEN 0
    ELSE IF events[j].column = col /\ events[j].ch \in {"2", "4"} THEN j
    ELSE IF events[j].column = col /\ events[j].ch = "3" THEN 0
    ELSE find_head(events, j - 1, col)

\* encode_measures, "Resolve collisions": a tail followed by a start at the same
\* time and column turns its hold into a tap and is marked '0'
RECURSIVE resolve_collisions(_, _)
resolve_collisions(events, i) ==
    IF i >= Len(events) THEN events
    ELSE LET e1 == events[i]
             e2 == events[i + 1]
             j == find_head(events, i - 1, e1.column)
         IN  IF /\ e1.time_us = e2.time_us /\ e1.column = e2.column
                /\ e1.ch = "3" /\ e2.ch \in {"1", "2", "4", "M"}
                /\ j # 0
             THEN resolve_collisions([events EXCEPT ![j].ch = "1", ![i].ch = "0"], i + 1)
             ELSE resolve_collisions(events, i + 1)

\* encode_measures, "Group events by measure": the events kept, each with its row
\* (its beat snapped to the 48th-of-a-beat grid, counted in 48ths)
RECURSIVE snap_events(_, _, _)
snap_events(events, bpms, start_time_us) ==
    IF events = <<>> THEN <<>>
    ELSE LET e == Head(events)
             raw_beat == us_to_beat_simple(e.time_us, bpms, start_time_us)
             rest == snap_events(Tail(events), bpms, start_time_us)
         IN  IF e.ch = "0" \/ raw_beat.n < 0 THEN rest
             ELSE <<[row |-> RatRound(RatMul(raw_beat, Rat(ROWS_PER_BEAT, 1))),
                     column |-> e.column, ch |-> e.ch]>> \o rest

\* The standard divisors, and the first of them that all events of a measure
\* align with (192 when none does)
SmDivisors == <<4, 8, 12, 16, 24, 32, 48, 64, 96, 192>>
best_divisor(events) ==
    LET fits == {k \in 1..Len(SmDivisors) :
                    \A i \in 1..Len(events) :
                        ((events[i].row % ROWS_PER_MEASURE) * SmDivisors[k])
                            % ROWS_PER_MEASURE = 0}
    IN  IF fits = {} THEN 192 ELSE SmDivisors[MinOf(fits)]

\* One line of a measure: the events of line i written over '0's, later ones
\* over earlier ones
RECURSIVE write_line(_, _, _, _)
write_line(events, line_chars, i, lines_per_measure) ==
    IF events = <<>> THEN line_chars
    ELSE LET e == Head(events)
             here == ((e.row % ROWS_PER_MEASURE) * lines_per_measure) = i * ROWS_PER_MEASURE
         IN  write_line(Tail(events),
                        IF here /\ e.column < Len(line_chars)
                        THEN [line_chars EXCEPT ![e.column + 1] = e.ch] ELSE line_chars,
                        i, lines_per_measure)

\* encode_measures: the measures written, each a sequence of lines
encode_measures(c, bpms, start_time_us) ==
    LET zeros == [k \in 1..c.metadata.key_count |-> "0"]
        max_time == CHOOSE t \in {c.notes[i].time_us + c.notes[i].note_type.duration_us :
                                     i \in 1..Len(c.notes)} :
                        \A i \in 1..Len(c.notes) :
                            c.notes[i].time_us + c.notes[i].note_type.duration_us <= t
        total_beats == us_to_beat_simple(max_time, bpms, start_time_us)
        total_measures == IF total_beats.n > 0
                          THEN RatCeil(RatMul(total_beats, Rat(1, 4))) + 1 ELSE 1
        events == snap_events(resolve_collisions(sort_by_key_time(all_note_events(c.notes)), 1),
                              bpms, start_time_us)
        last == IF events = <<>> THEN 0
                ELSE CHOOSE m \in {events[i].row \div ROWS_PER_MEASURE : i \in 1..Len(events)} :
                        \A i \in 1..Len(events) : events[i].row \div ROWS_PER_MEASURE <= m
        count == IF last + 1 > total_measures THEN last + 1 ELSE total_measures
        measure(m) == LET InMeasure(e) == e.row \div ROWS_PER_MEASURE = m
                      IN  SelectSeq(events, InMeasure)
    IN  IF c.notes = <<>> THEN << <<zeros, zeros, zeros, zeros>> >>
        ELSE [m \in 1..count |->
                [i \in 1..best_divisor(measure(m - 1)) |->
                    write_line(measure(m - 1), zeros, i - 1, best_divisor(measure(m - 1)))]]

\* SmEncoder::encode: of the document it writes, #OFFSET, #BPMS (beats in
\* thousandths), the steps type and the measures
SmEncoder_encode(c) ==
    LET IsBpm(tp) == ~tp.is_inherited
        bpm_points == SelectSeq(c.timing_points, IsBpm)
        first_bpm_time == IF bpm_points = <<>> THEN 0 ELSE bpm_points[1].time_us
        beat_text(beat) ==
            IF RatLess([n |-> Abs(RatSub(beat, Rat(RatRound(beat), 1)).n),
                        d |-> RatSub(beat, Rat(RatRound(beat), 1)).d], Rat(1, 1000))
            THEN RatRound(beat) * 1000
            ELSE RatRound(RatMul(beat, Rat(1000, 1)))
    IN  [offset_us |-> first_bpm_time,
         bpms |-> [i \in 1..Len(bpm_points) |->
                     [beat |-> beat_text(us_to_beat_simple(bpm_points[i].time_us, bpm_points,
                                                           first_bpm_time)),
                      bpm |-> bpm_points[i].bpm]],
         stepstype |-> CASE c.metadata.key_count = 6 -> "dance-solo"
                         [] c.metadata.key_count = 8 -> "dance-double"
                         [] OTHER -> "dance-single",
         measures |-> encode_measures(c, bpm_points, first_bpm_time)]

\* parse_bpms: #BPMS pairs (sorted by beat) to (time_us, bpm)
RECURSIVE parse_bpms_walk(_, _, _, _)
parse_bpms_walk(pairs, current_time_us, current_beat, current_bpm) ==
    IF pairs = <<>> THEN <<>>
    ELSE LET beat == Rat(Head(pairs).beat, 1000)
             later == RatLess(current_beat, beat)
             t == IF later
                  THEN current_time_us
                       + rows_to_us(RatMul(RatSub(beat, current_beat), Rat(ROWS_PER_BEAT, 1)),
                                    current_bpm)
                  ELSE current_time_us
         IN  <<[time_us |-> t, bpm |-> Head(pairs).bpm]>>
             \o parse_bpms_walk(Tail(pairs), t, IF later THEN beat ELSE current_beat,
                                Head(pairs).bpm)
parse_bpms(pairs) ==
    LET result == parse_bpms_walk(pairs, 0, Rat(0, 1), 120000)
    IN  IF result = <<>> \/ result[1].time_us > 0
        THEN <<[time_us |-> 0, bpm |-> 120000]>> \o result
        ELSE result

\* row_to_us: the time of a row under the BPM list
RECURSIVE row_to_us_walk(_, _, _, _, _, _)
row_to_us_walk(row, bpms, i, current_time_us, current_row, current_bpm) ==
    LET bpm_row == RatAdd(current_row,
                          us_to_rows(bpms[i].time_us - current_time_us, current_bpm))
    IN  IF i > Len(bpms) \/ ~RatLess(bpm_row, row)
        THEN current_time_us + rows_to_us(RatSub(row, current_row), current_bpm)
        ELSE row_to_us_walk(row, bpms, i + 1, bpms[i].time_us, bpm_row, bpms[i].bpm)
row_to_us(row, bpms) ==
    IF bpms = <<>> THEN rows_to_us(row, 120000)
    ELSE row_to_us_walk(row, bpms, 2, 0, Rat(0, 1), bpms[1].bpm)

\* SmNoteType::from_char, SmNoteType::is_note
SmNoteType_from_char(ch) ==
    CASE ch = "1" -> "Tap"
      [] ch = "2" -> "HoldHead"
      [] ch = "3" -> "Tail"
      [] ch = "4" -> "RollHead"
      [] ch = "M" -> "Mine"
      [] ch = "L" -> "Lift"
      [] ch = "F" -> "Fake"
      [] OTHER -> "Empty"
SmNoteType_is_note(t) == t \notin {"Empty", "Fake"}

\* parse_measure_notes: the notes of the lines of one measure, line by line and
\* within a line column by column
parse_line_notes(line, time_us) ==
    LET IsNote(n) == SmNoteType_is_note(n.note_type)
    IN  SelectSeq([k \in 1..Len(line) |->
                      [time_us |-> time_us, column |-> k - 1,
                       note_type |-> SmNoteType_from_char(line[k])]], IsNote)
RECURSIVE parse_measure_notes(_, _, _, _)
parse_measure_notes(lines, measure_num, bpms, line_idx) ==
    IF line_idx >= Len(lines) THEN <<>>
    ELSE LET rows_per_line == Rat(ROWS_PER_MEASURE, Len(lines))
             row == RatAdd(Rat(measure_num * ROWS_PER_MEASURE, 1),
                           RatMul(Rat(line_idx, 1), rows_per_line))
         IN  parse_line_notes(lines[line_idx + 1], row_to_us(row, bpms))
             \o parse_measure_notes(lines, measure_num, bpms, line_idx + 1)

\* SmChart::column_count_from_stepstype
column_count_from_stepstype(stepstype) ==
    CASE stepstype \in {"dance-single", "pump-single"} -> 4
      [] stepstype \in {"dance-double", "pump-double", "dance-couple"} -> 8
      [] stepstype \in {"dance-solo", "pump-halfdouble"} -> 6
      [] OTHER -> 4

\* parse_chart: the column count (widened by longer lines) and the notes of the
\* measures; empty lines are no note lines
RECURSIVE parse_measures(_, _, _)
parse_measures(measures, measure_num, bpms) ==
    IF measure_num >= Len(measures) THEN <<>>
    ELSE LET IsNoteLine(l) == l # <<>>
         IN  parse_measure_notes(SelectSeq(measures[measure_num + 1], IsNoteLine),
                                 measure_num, bpms, 0)
             \o parse_measures(measures, measure_num + 1, bpms)
parse_chart(document, bpms) ==
    LET widths == UNION {{Len(document.measures[m][i]) : i \in 1..Len(document.measures[m])} :
                            m \in 1..Len(document.measures)}
        base == column_count_from_stepstype(document.stepstype)
    IN  [column_count |-> CHOOSE w \in widths \cup {base} :
                              \A v \in widths \cup {base} : v <= w,
         notes |-> parse_measures(document.measures, 0, bpms)]

\* sorted_notes.sort_by(time_us, then column): a stable sort
RECURSIVE insert_by_time_column(_, _)
insert_by_time_column(sorted, n) ==
    IF sorted = <<>> THEN <<n>>
    ELSE IF \/ Head(sorted).time_us < n.time_us
            \/ (Head(sorted).time_us = n.time_us /\ Head(sorted).column <= n.column)
         THEN <<Head(sorted)>> \o insert_by_time_column(Tail(sorted), n)
         ELSE <<n>> \o sorted
RECURSIVE sort_by_time_column(_)
sort_by_time_column(s) ==
    IF s = <<>> THEN <<>>
    ELSE insert_by_time_column(sort_by_time_column(SubSeq(s, 1, Len(s) - 1)), s[Len(s)])

\* pending.iter().position(|(_, col)| *col == column): 0 when there is none
pending_position(pending, column) ==
    LET At == {i \in 1..Len(pending) : pending[i].column = column}
    IN  IF At = {} THEN 0 ELSE MinOf(At)
\* Vec::remove
RemoveAt(s, i) == SubSeq(s, 1, i - 1) \o SubSeq(s, i + 1, Len(s))

\* The loop of from_chart with the two lookups of a tail exchanged: pending_rolls
\* first, then pending_holds
RECURSIVE convert_sm_notes_rolls_first(_, _, _, _)
convert_sm_notes_rolls_first(sorted_notes, notes, pending_holds, pending_rolls) ==
    IF sorted_notes = <<>> THEN notes
    ELSE LET n == Head(sorted_notes)
             rest == Tail(sorted_notes)
             h == pending_position(pending_holds, n.column)
             r == pending_position(pending_rolls, n.column)
         IN  CASE n.note_type \in {"Tap", "Lift"} ->
                    convert_sm_notes_rolls_first(rest, Append(notes, MkNote(n.time_us, Tap, None, n.column)),
                                     pending_holds, pending_rolls)
               [] n.note_type = "Mine" ->
                    convert_sm_notes_rolls_first(rest, Append(notes, MkNote(n.time_us, Mine, None, n.column)),
                                     pending_holds, pending_rolls)
               [] n.note_type = "HoldHead" ->
                    convert_sm_notes_rolls_first(rest, notes, Append(pending_holds, n), pending_rolls)
               [] n.note_type = "RollHead" ->
                    convert_sm_notes_rolls_first(rest, notes, pending_holds, Append(pending_rolls, n))
               [] n.note_type = "Tail" /\ r = 0 /\ h # 0 ->
                    convert_sm_notes_rolls_first(rest,
                        Append(notes, MkNote(pending_holds[h].time_us,
                                             Hold(n.time_us - pending_holds[h].time_us), None,
                                             n.column)),
                        RemoveAt(pending_holds, h), pending_rolls)
               [] n.note_type = "Tail" /\ r # 0 ->
                    convert_sm_notes_rolls_first(rest,
                        Append(notes, MkNote(pending_rolls[r].time_us,
                                             Burst(n.time_us - pending_rolls[r].time_us), None,
                                             n.column)),
                        pending_holds, RemoveAt(pending_rolls, r))
               [] OTHER -> convert_sm_notes_rolls_first(rest, notes, pending_holds, pending_rolls)

\* from_chart, the loop over the sorted notes: heads wait in pending_holds /
\* pending_rolls for the next tail of their column; an orphan tail is ignored
RECURSIVE convert_sm_notes(_, _, _, _)
convert_sm_notes(sorted_notes, notes, pending_holds, pending_rolls) ==
    IF sorted_notes = <<>> THEN notes
    ELSE LET n == Head(sorted_notes)
             rest == Tail(sorted_notes)
             h == pending_position(pending_holds, n.column)
             r == pending_position(pending_rolls, n.column)
         IN  CASE n.note_type \in {"Tap", "Lift"} ->
                    convert_sm_notes(rest, Append(notes, MkNote(n.time_us, Tap, None, n.column)),
                                     pending_holds, pending_rolls)
               [] n.note_type = "Mine" ->
                    convert_sm_notes(rest, Append(notes, MkNote(n.time_us, Mine, None, n.column)),
                                     pending_holds, pending_rolls)
               [] n.note_type = "HoldHead" ->
                    convert_sm_notes(rest, notes, Append(pending_holds, n), pending_rolls)
               [] n.note_type = "RollHead" ->
                    convert_sm_notes(rest, notes, pending_holds, Append(pending_rolls, n))
               [] n.note_type = "Tail" /\ h # 0 ->
                    convert_sm_notes(rest,
                        Append(notes, MkNote(pending_holds[h].time_us,
                                             Hold(n.time_us - pending_holds[h].time_us), None,
                                             n.column)),
                        RemoveAt(pending_holds, h), pending_rolls)
               [] n.note_type = "Tail" /\ h = 0 /\ r # 0 ->
                    convert_sm_notes(rest,
                        Append(notes, MkNote(pending_rolls[r].time_us,
                                             Burst(n.time_us - pending_rolls[r].time_us), None,
                                             n.column)),
                        pending_holds, RemoveAt(pending_rolls, r))
               [] OTHER -> convert_sm_notes(rest, notes, pending_holds, pending_rolls)

\* SmDecoder::decode on a document with one #NOTES block: parse, then from_chart
SmDecoder_decode_parsed(document) ==
    LET bpms == parse_bpms(document.bpms)
        sm_chart == parse_chart(document, bpms)
    IN  [kind |-> "Ok",
         chart |-> [RoxChart_new(sm_chart.column_count) EXCEPT
                       !.metadata.audio_offset_us = -document.offset_us,
                       !.timing_points = [i \in 1..Len(bpms) |->
                                             TimingPoint_bpm(bpms[i].time_us, bpms[i].bpm)],
                       !.notes = sort_by_key_time(
                           convert_sm_notes(sort_by_time_column(sm_chart.notes),
                                            <<>>, <<>>, <<>>))]]

\* Documents handed to the osu decoder: hit objects naming samples.  The hit
\* objects at odd places are taps, at rising times, those at even places holds,
\* at falling times.
MaxOsuHitObjects == 5
SampleFileInputs ==
    {<<>>, <<"a">>, <<" ", "a">>, <<"b">>, <<"c">>, <<"d">>, <<"e">>}
OsuSampleHitObject(i, file) ==
    IF i % 2 = 0
    THEN OsuHitObject(64, 1000 - 100 * i, 128, Some(1050 - 100 * i), <<"0", "0", "0", "70", file>>)
    ELSE OsuHitObject(448, 100 * i, 1, None, <<"0", "0", "0", "0", file>>)
OsuDocuments ==
    {[mode |-> 3, circle_size |-> 4,
      hit_objects |-> [i \in 1..Len(files) |-> OsuSampleHitObject(i, files[i])]] :
        files \in SeqsUpTo(SampleFileInputs, MaxOsuHitObjects)}

\* Charts handed to the StepMania encoder
MaxSmNotes == 2
SmNoteInputs ==
    {MkNote(0, Tap, None, 0), MkNote(500000, Tap, None, 1), MkNote(5000, Tap, None, 2),
     MkNote(1000000, Hold(500000), None, 0), MkNote(1500000, Tap, None, 0),
     MkNote(2500000, Mine, None, 3), MkNote(250000, Burst(250000), None, 1),
     MkNote(500000, Tap, None, 0)}
SmTimingInputs ==
    {<<TimingPoint_bpm(0, 120000)>>, <<TimingPoint_bpm(500000, 120000)>>,
     <<TimingPoint_bpm(0, 120000), TimingPoint_sv(0, 1500), TimingPoint_bpm(2000000, 60000)>>}
SmCharts ==
    {[RoxChart_new(k) EXCEPT !.timing_points = tps, !.notes = ns] :
        k \in {3, 4, 7}, tps \in SmTimingInputs, ns \in SeqsUpTo(SmNoteInputs, MaxSmNotes)}

\* Charts handed to the StepMania encoder alone: holds and rolls of column 0
\* that end where another note starts, with and without a note of another
\* column at that time, and a hold of column 2 ending 1 ms before a tap
MaxSmEncodeNotes == 3
SmEncodeNoteInputs ==
    {MkNote(1000000, Hold(500000), None, 0), MkNote(1500000, Tap, None, 0),
     MkNote(1500000, Tap, None, 1), MkNote(1500000, Burst(500000), None, 0),
     MkNote(1000000, Hold(499000), None, 2), MkNote(1500000, Mine, None, 2)}
SmEncodeCharts ==
    {[RoxChart_new(4) EXCEPT !.timing_points = <<TimingPoint_bpm(0, 120000)>>, !.notes = ns] :
        ns \in SeqsUpTo(SmEncodeNoteInputs, MaxSmEncodeNotes)}

\* Documents handed to the StepMania decoder: scenario S4 (the BASIC_SM of the
\* decoder's tests) and variations of it
SmLine(a, b, c, d) == <<a, b, c, d>>
SmEmptyLine == SmLine("0", "0", "0", "0")
S4_Document ==
    [offset_us |-> 0, bpms |-> <<[beat |-> 0, bpm |-> 120000]>>, stepstype |-> "dance-single",
     measures |-> << <<SmEmptyLine, SmLine("1", "0", "0", "0"), SmLine("0", "1", "0", "0"),
                       SmLine("0", "0", "1", "0")>>,
                     <<SmLine("0", "0", "0", "1"), SmEmptyLine, SmEmptyLine, SmEmptyLine>> >>]
SmMeasureInputs ==
    {<<SmEmptyLine, SmLine("1", "0", "0", "0"), SmLine("0", "1", "0", "0"),
       SmLine("0", "0", "1", "0")>>,
     <<SmLine("0", "0", "0", "1"), SmEmptyLine, SmEmptyLine, SmEmptyLine>>,
     <<SmLine("2", "M", "0", "4"), SmLine("3", "0", "L", "0"), SmLine("0", "F", "0", "3"),
       SmLine("3", "0", "0", "0"), SmEmptyLine, SmEmptyLine, SmEmptyLine, SmEmptyLine>>,
     <<SmLine("4", "2", "2", "3"), SmLine("2", "2", "4", "0"), SmLine("3", "3", "3", "0"),
       SmLine("3", "3", "3", "1")>>}
SmDocuments ==
    {[offset_us |-> o, bpms |-> <<[beat |-> 0, bpm |-> b]>>, stepstype |-> st,
      measures |-> <<m1, m2>>] :
        o \in {0, -30000}, b \in {120000, 60000}, st \in {"dance-single", "dance-double"},
        m1 \in SmMeasureInputs, m2 \in SmMeasureInputs}

\* ------------------------------------------------------------------------
\* osu!taiko: TaikoHitsound, ColumnLayout, AlternationState, TaikoDecoder
\* ------------------------------------------------------------------------
\* bit k of a flags word
BitSet(flags, k) == (flags \div (2 ^ k)) % 2 = 1
\* TaikoHitsound::from_bits_truncate: the four known bits
TaikoHitsound_from_bits_truncate(bits) == bits % 16
\* TaikoHitsound::is_kat (WHISTLE or CLAP), TaikoHitsound::is_big (FINISH)
TaikoHitsound_is_kat(hitsound) == BitSet(hitsound, 1) \/ BitSet(hitsound, 3)
TaikoHitsound_is_big(hitsound) == BitSet(hitsound, 2)
\* TaikoHitObject::is_spinner: (object_type & 8) != 0
TaikoHitObject_is_spinner(ho) == BitSet(ho.object_type, 3)

\* ColumnLayout::don_columns, ColumnLayout::kat_columns
ColumnLayouts == {"Dkkd", "Dkdk", "Kddk"}
don_columns(layout) ==
    CASE layout = "Dkkd" -> <<0, 3>>
      [] layout = "Dkdk" -> <<0, 2>>
      [] layout = "Kddk" -> <<1, 2>>
kat_columns(layout) ==
    CASE layout = "Dkkd" -> <<1, 2>>
      [] layout = "Dkdk" -> <<1, 3>>
      [] layout = "Kddk" -> <<0, 3>>

\* AlternationState::new
AlternationState_new(layout) == [layout |-> layout, don_index |-> 0, kat_index |-> 0]

\* A next_don_columns that advances the index on big notes too.
next_don_columns_big_advances(state, is_big) ==
    LET columns == don_columns(state.layout)
    IN  [columns |-> IF is_big THEN columns ELSE <<columns[state.don_index + 1]>>,
         state |-> [state EXCEPT !.don_index = (state.don_index + 1) % 2]]

\* AlternationState::next_don_columns / next_kat_columns: the columns returned
\* and the state left
next_don_columns(state, is_big) ==
    LET columns == don_columns(state.layout)
    IN  IF is_big THEN [columns |-> <<columns[1], columns[2]>>, state |-> state]
        ELSE [columns |-> <<columns[state.don_index + 1]>>,
              state |-> [state EXCEPT !.don_index = (state.don_index + 1) % 2]]
next_kat_columns(state, is_big) ==
    LET columns == kat_columns(state.layout)
    IN  IF is_big THEN [columns |-> <<columns[1], columns[2]>>, state |-> state]
        ELSE [columns |-> <<columns[state.kat_index + 1]>>,
              state |-> [state EXCEPT !.kat_index = (state.kat_index + 1) % 2]]

\* decode_with_state, the loop over beatmap.hit_objects: spinners are skipped,
\* every other hit becomes one tap per column returned
RECURSIVE convert_taiko_hits(_, _, _)
convert_taiko_hits(hit_objects, state, notes) ==
    IF hit_objects = <<>> THEN notes
    ELSE LET ho == Head(hit_objects)
             time_us == ho.time_ms * 1000
             hitsound == TaikoHitsound_from_bits_truncate(ho.hitsound)
             is_big == TaikoHitsound_is_big(hitsound)
             r == IF TaikoHitsound_is_kat(hitsound) THEN next_kat_columns(state, is_big)
                  ELSE next_don_columns(state, is_big)
         IN  IF TaikoHitObject_is_spinner(ho)
             THEN convert_taiko_hits(Tail(hit_objects), state, notes)
             ELSE convert_taiko_hits(Tail(hit_objects), r.state,
                      notes \o [k \in 1..Len(r.columns) |->
                                   MkNote(time_us, Tap, None, r.columns[k])])

\* TaikoDecoder::decode_with_layout on the parsed hit objects: a 4K chart with a
\* BPM point, the notes sorted by time
TaikoDecoder_decode_with_layout(hit_objects, layout) ==
    [kind |-> "Ok",
     chart |-> [RoxChart_new(4) EXCEPT
                   !.timing_points = <<TimingPoint_bpm(0, 120000)>>,
                   !.notes = sort_by_key_time(
                       convert_taiko_hits(hit_objects, AlternationState_new(layout), <<>>))]]

\* Hit objects handed to the taiko decoder: dons, kats, big ones, a hitsound
\* with an unknown bit, and a spinner
MaxTaikoHits == 3
TaikoHitInputs ==
    {[time_ms |-> t, hitsound |-> h, object_type |-> 1] : t \in {1000, 2000}, h \in {0, 2, 4, 6, 24}}
    \cup {[time_ms |-> 2000, hitsound |-> 0, object_type |-> 12]}

\* ------------------------------------------------------------------------
\* Quaver: QuaMode, QuaEncoder::encode
\* ------------------------------------------------------------------------
\* QuaMode::key_count
QuaMode_key_count(mode) == IF mode = "Keys7" THEN 7 ELSE 4
\* <QuaMode as Default>::default: the variant marked #[default]
QuaMode_default == "Keys4"

\* QuaEncoder::encode: of the QuaChart it serializes, Mode and HitObjects.  No
\* field initializer names `mode`: it comes from `..Default::default()`.  Times
\* are written in milliseconds with a fraction, kept here in microseconds.
QuaEncoder_encode(c) ==
    [kind |-> "Ok",
     data |-> [mode |-> QuaMode_default,
               hit_objects |-> [i \in 1..Len(c.notes) |->
                   [start_time |-> c.notes[i].time_us,
                    lane |-> c.notes[i].column + 1,
                    end_time |-> IF c.notes[i].note_type.tag = "Hold"
                                 THEN Some(c.notes[i].time_us + c.notes[i].note_type.duration_us)
                                 ELSE None]]]]

\* Charts handed to the Quaver encoder
QuaKeyCounts == {1, 4, 5, 7, 8}
QuaCharts ==
    {[RoxChart_new(k) EXCEPT !.timing_points = <<TimingPoint_bpm(0, 120000)>>, !.notes = ns] :
        k \in QuaKeyCounts, ns \in SeqsUpTo(OsuNoteInputs, MaxOsuNotes)}

\* A hit object of a .qua document.  StartTime and EndTime are milliseconds with
\* a fraction (f64), kept here in microseconds: (t * 1000.0) as i64 is then t.
QuaHitObject(start_time, lane, end_time) ==
    [start_time |-> start_time, lane |-> lane, end_time |-> end_time]

\* from_qua, "Convert hit objects": lanes are 1-indexed, lane.saturating_sub(1)
qua_convert_hit_object(ho) ==
    LET time_us == ho.start_time
        column == IF ho.lane = 0 THEN 0 ELSE ho.lane - 1
    IN  IF ho.end_time # None
        THEN MkNote(time_us, Hold(ho.end_time[1] - time_us), None, column)
        ELSE MkNote(time_us, Tap, None, column)

\* QuaDecoder::from_qua without its last statement, chart.notes.sort_by_key
from_qua_unsorted(qua) ==
    [kind |-> "Ok",
     chart |-> [RoxChart_new(QuaMode_key_count(qua.mode)) EXCEPT
                   !.timing_points = sort_by_key_time(
                       [i \in 1..Len(qua.timing_points) |->
                           TimingPoint_bpm(qua.timing_points[i].start_time,
                                           qua.timing_points[i].bpm)]),
                   !.notes = [i \in 1..Len(qua.hit_objects) |->
                                 qua_convert_hit_object(qua.hit_objects[i])]]]

\* QuaDecoder::from_qua
from_qua(qua) ==
    [kind |-> "Ok",
     chart |-> [RoxChart_new(QuaMode_key_count(qua.mode)) EXCEPT
                   !.timing_points = sort_by_key_time(
                       [i \in 1..Len(qua.timing_points) |->
                           TimingPoint_bpm(qua.timing_points[i].start_time,
                                           qua.timing_points[i].bpm)]),
                   !.notes = sort_by_key_time(
                       [i \in 1..Len(qua.hit_objects) |->
                           qua_convert_hit_object(qua.hit_objects[i])])]]

\* Documents handed to the Quaver decoder
MaxQuaHitObjects == 2
QuaHitObjectInputs ==
    {QuaHitObject(2000000, 1, None), QuaHitObject(1000000, 2, None),
     QuaHitObject(1000500, 4, Some(1500000)), QuaHitObject(0, 0, None),
     QuaHitObject(1000000, 7, Some(3000000))}
QuaDocuments ==
    {[mode |-> m, timing_points |-> tps, hit_objects |-> hos] :
        m \in {"Keys4", "Keys7"},
        tps \in {<<[start_time |-> 0, bpm |-> 120000]>>,
                 <<[start_time |-> 2000000, bpm |-> 90000],
                   [start_time |-> 0, bpm |-> 120000]>>},
        hos \in SeqsUpTo(QuaHitObjectInputs, MaxQuaHitObjects)}

\* ------------------------------------------------------------------------
\* Friday Night Funkin': FnfNote, FnfDecoder::from_fnf
\* ------------------------------------------------------------------------
\* A note array [time_ms, lane, duration_ms] of a document
FnfNote(time_ms, lane, duration_ms) ==
    [time_ms |-> time_ms, lane |-> lane, duration_ms |-> duration_ms]
\* FnfNote::lane: the number `as u8`, a cast that saturates
FnfNote_lane(n) == IF n.lane < 0 THEN 0 ELSE IF n.lane > 255 THEN 255 ELSE n.lane
\* FnfNote::is_hold
FnfNote_is_hold(n) == n.duration_ms > 0
FnfSides == {"Player", "Opponent", "Both"}

\* from_fnf, "Handle BPM changes" of one section: the timing points pushed, the
\* current bpm and the added_initial_bpm flag after it
fnf_section_bpm(section, current_bpm, added_initial_bpm) ==
    IF section.change_bpm /\ section.bpm > 0
    THEN IF section.section_notes # <<>>
         THEN [points |-> <<TimingPoint_bpm(section.section_notes[1].time_ms * 1000,
                                            section.bpm)>>,
               current_bpm |-> section.bpm, added_initial_bpm |-> added_initial_bpm]
         ELSE [points |-> <<>>, current_bpm |-> current_bpm,
               added_initial_bpm |-> added_initial_bpm]
    ELSE IF ~added_initial_bpm
    THEN [points |-> <<TimingPoint_bpm(0, current_bpm)>>, current_bpm |-> current_bpm,
          added_initial_bpm |-> TRUE]
    ELSE [points |-> <<>>, current_bpm |-> current_bpm,
          added_initial_bpm |-> added_initial_bpm]

\* from_fnf, the body of the loop over a section's notes: the notes pushed for
\* one note array (none when the side filters it out)
fnf_convert_note(fnf_note, must_hit_section, side) ==
    LET raw_lane == FnfNote_lane(fnf_note)
        is_player_note == IF raw_lane < 4 THEN must_hit_section ELSE ~must_hit_section
        base_lane == IF raw_lane < 4 THEN raw_lane ELSE raw_lane - 4
        column == CASE side = "Player" -> IF is_player_note THEN Some(base_lane) ELSE None
                    [] side = "Opponent" -> IF is_player_note THEN None ELSE Some(base_lane)
                    [] OTHER -> IF is_player_note THEN Some(base_lane + 4) ELSE Some(base_lane)
        time_us == fnf_note.time_ms * 1000
    IN  IF column = None THEN <<>>
        ELSE IF FnfNote_is_hold(fnf_note)
        THEN <<MkNote(time_us, Hold(fnf_note.duration_ms * 1000), None, column[1])>>
        ELSE <<MkNote(time_us, Tap, None, column[1])>>

RECURSIVE fnf_convert_notes(_, _, _)
fnf_convert_notes(section_notes, must_hit_section, side) ==
    IF section_notes = <<>> THEN <<>>
    ELSE fnf_convert_note(Head(section_notes), must_hit_section, side)
         \o fnf_convert_notes(Tail(section_notes), must_hit_section, side)

\* from_fnf, the loop over fnf.song.notes (the sections)
RECURSIVE fnf_sections(_, _, _, _, _, _)
fnf_sections(sections, side, current_bpm, added_initial_bpm, timing_points, notes) ==
    IF sections = <<>>
    THEN [timing_points |-> timing_points, notes |-> notes,
          added_initial_bpm |-> added_initial_bpm]
    ELSE LET section == Head(sections)
             b == fnf_section_bpm(section, current_bpm, added_initial_bpm)
         IN  fnf_sections(Tail(sections), side, b.current_bpm, b.added_initial_bpm,
                          timing_points \o b.points,
                          notes \o fnf_convert_notes(section.section_notes,
                                                     section.must_hit_section, side))

\* FnfDecoder::from_fnf
from_fnf(fnf, side) ==
    LET key_count == IF side = "Both" THEN 8 ELSE 4
        r == fnf_sections(fnf.notes, side, fnf.bpm, FALSE, <<>>, <<>>)
        timing_points == IF r.added_initial_bpm THEN r.timing_points
                         ELSE Append(r.timing_points, TimingPoint_bpm(0, fnf.bpm))
    IN  [kind |-> "Ok",
         chart |-> [RoxChart_new(key_count) EXCEPT
                       !.metadata.is_coop = (side = "Both"),
                       !.timing_points = sort_by_key_time(timing_points),
                       !.notes = sort_by_key_time(r.notes)]]

\* Documents handed to the FNF decoder
MaxFnfNotes == 2
FnfNoteInputs ==
    {FnfNote(1000, 0, 0), FnfNote(1000, 3, 0), FnfNote(1000, 4, 0), FnfNote(500, 7, 0),
     FnfNote(1000, 8, 0), FnfNote(2000, 5, 500), FnfNote(3000, -1, 0)}
FnfSection(section_notes, must_hit_section, change_bpm, bpm) ==
    [section_notes |-> section_notes, must_hit_section |-> must_hit_section,
     change_bpm |-> change_bpm, bpm |-> bpm]
FnfSectionInputs ==
    {FnfSection(ns, mh, cb, 150000) :
        ns \in SeqsUpTo(FnfNoteInputs, MaxFnfNotes), mh \in BOOLEAN, cb \in BOOLEAN}
FnfTailInputs ==
    {<<>>, <<FnfSection(<<FnfNote(4000, 1, 0), FnfNote(4000, 6, 0)>>, FALSE, FALSE, 0)>>,
     <<FnfSection(<<FnfNote(250, 2, 0)>>, TRUE, TRUE, 90000)>>}
FnfDocuments ==
    {[bpm |-> 100000, notes |-> <<s>> \o rest] : s \in FnfSectionInputs, rest \in FnfTailInputs}

\* ------------------------------------------------------------------------
\* Operations of the translators
\* ------------------------------------------------------------------------
InitTr ==
    /\ overflow_checks \in BOOLEAN
    /\ chart = RoxChart_new(4)
    /\ pc = "idle"
    /\ before = NoResult
    /\ vres = NoResult
    /\ eres = NoResult
    /\ dres = NoResult
    /\ io_log = <<>>
    /\ rt = NoResult
    /\ doc = NoResult
    /\ ares = NoResult
    /\ calls = <<>>
    /\ tin = NoResult
    /\ tout = NoResult

\* column_to_x(col, key_count), then OsuHitObject { x, .. }.column(key_count)
ColumnRoundTrip ==
    /\ pc = "idle"
    /\ pc' = "column"
    /\ \E k \in 1..MaxKeyCount : \E c \in 0..(k - 1) :
        /\ tin' = [key_count |-> k, column |-> c]
        /\ tout' = [x |-> column_to_x(c, k),
                    column |-> OsuHitObject_column(column_to_x(c, k), k)]
    /\ UNCHANGED <<overflow_checks, codec_vars, auto_vars>>

\* OsuHitObject { x, .. }.column(key_count), as from_beatmap calls it
ColumnOfX ==
    /\ pc = "idle"
    /\ pc' = "column_of_x"
    /\ \E k \in 4..MaxKeyCount : \E x \in 0..OsuMaxX :
        /\ tin' = [key_count |-> k, x |-> x]
        /\ tout' = [column |-> OsuHitObject_column(x, k)]
    /\ UNCHANGED <<overflow_checks, codec_vars, auto_vars>>

\* OsuDecoder::decode(&OsuEncoder::encode(&chart)?)
OsuRoundTrip ==
    /\ pc = "idle"
    /\ pc' = "osu_roundtrip"
    /\ \E c \in OsuCharts :
        /\ tin' = c
        /\ tout' = LET e == OsuEncoder_encode(c)
                   IN  IF e.kind # "Ok" THEN e ELSE OsuDecoder_decode_parsed(e.data)
    /\ UNCHANGED <<overflow_checks, codec_vars, auto_vars>>

\* SmDecoder::decode(&SmEncoder::encode(&chart)?)
SmRoundTrip ==
    /\ pc = "idle"
    /\ pc' = "sm_roundtrip"
    /\ \E c \in SmCharts :
        /\ tin' = c
        /\ tout' = SmDecoder_decode_parsed(SmEncoder_encode(c))
    /\ UNCHANGED <<overflow_checks, codec_vars, auto_vars>>

\* SmEncoder::encode(&chart)
SmEncode ==
    /\ pc = "idle"
    /\ pc' = "sm_encode"
    /\ \E c \in SmEncodeCharts :
        /\ tin' = c
        /\ tout' = [kind |-> "Ok", document |-> SmEncoder_encode(c)]
    /\ UNCHANGED <<overflow_checks, codec_vars, auto_vars>>

\* SmDecoder::decode(document)
SmDecode ==
    /\ pc = "idle"
    /\ pc' = "sm_decode"
    /\ \E d \in SmDocuments :
        /\ tin' = d
        /\ tout' = SmDecoder_decode_parsed(d)
    /\ UNCHANGED <<overflow_checks, codec_vars, auto_vars>>

\* TaikoDecoder::decode_with_layout(document, layout)
TaikoDecode ==
    /\ pc = "idle"
    /\ pc' = "taiko_decode"
    /\ \E layout \in ColumnLayouts, hos \in SeqsUpTo(TaikoHitInputs, MaxTaikoHits) :
        /\ tin' = [layout |-> layout, hit_objects |-> hos]
        /\ tout' = TaikoDecoder_decode_with_layout(hos, layout)
    /\ UNCHANGED <<overflow_checks, codec_vars, auto_vars>>

\* QuaEncoder::encode(&chart)
QuaEncode ==
    /\ pc = "idle"
    /\ pc' = "qua_encode"
    /\ \E c \in QuaCharts :
        /\ tin' = c
        /\ tout' = QuaEncoder_encode(c)
    /\ UNCHANGED <<overflow_checks, codec_vars, auto_vars>>

\* FnfDecoder::decode_with_side(document, side)
FnfDecode ==
    /\ pc = "idle"
    /\ pc' = "fnf_decode"
    /\ \E d \in FnfDocuments, side \in FnfSides :
        /\ tin' = [fnf |-> d, side |-> side]
        /\ tout' = from_fnf(d, side)
    /\ UNCHANGED <<overflow_checks, codec_vars, auto_vars>>

\* QuaDecoder::decode(document)
QuaDecode ==
    /\ pc = "idle"
    /\ pc' = "qua_decode"
    /\ \E d \in QuaDocuments :
        /\ tin' = d
        /\ tout' = from_qua(d)
    /\ UNCHANGED <<overflow_checks, codec_vars, auto_vars>>

\* OsuDecoder::decode(document)
OsuDecode ==
    /\ pc = "idle"
    /\ pc' = "osu_decode"
    /\ \E d \in OsuDocuments :
        /\ tin' = d
        /\ tout' = OsuDecoder_decode_parsed(d)
    /\ UNCHANGED <<overflow_checks, codec_vars, auto_vars>>

NextTr ==
    \/ ColumnRoundTrip
    \/ OsuRoundTrip
    \/ SmRoundTrip
    \/ SmDecode
    \/ TaikoDecode
    \/ QuaEncode
    \/ FnfDecode
    \/ OsuDecode
    \/ QuaDecode
    \/ SmEncode
    \/ ColumnOfX

SpecTr == InitTr /\ [][NextTr]_vars

\* ========================================================================
\* Properties of the binary codec and of validate
\* ========================================================================

\* The six invariants of a chart, stated on the data (times and durations as
\* mathematical integers), independently of how validate walks the chart.
NotesOn(c, col) == {i \in 1..Len(c.notes) : c.notes[i].column = col}
\* i comes before j when the column's notes are ordered by time (ties: chart order)
ComesBefore(c, i, j) ==
    \/ c.notes[i].time_us < c.notes[j].time_us
    \/ (c.notes[i].time_us = c.notes[j].time_us /\ i < j)
Consecutive(c, col, i, j) ==
    /\ i \in NotesOn(c, col) /\ j \in NotesOn(c, col)
    /\ ComesBefore(c, i, j)
    /\ ~\E k \in NotesOn(c, col) : ComesBefore(c, i, k) /\ ComesBefore(c, k, j)
Inv1_Columns(c) == \A i \in 1..Len(c.notes) : c.notes[i].column < c.metadata.key_count
Inv2_Coop(c) == c.metadata.is_coop => c.metadata.key_count % 2 = 0
Inv3_Durations(c) ==
    \A i \in 1..Len(c.notes) :
        c.notes[i].note_type.tag \in {"Hold", "Burst"} => c.notes[i].note_type.duration_us > 0
Inv4_TimingSorted(c) ==
    \A i \in 1..(Len(c.timing_points) - 1) :
        c.timing_points[i].time_us <= c.timing_points[i + 1].time_us
Inv5_Bpm(c) ==
    c.notes # <<>> => \E i \in 1..Len(c.timing_points) : ~c.timing_points[i].is_inherited
Inv6_NoOverlap(c) ==
    \A col \in 0..(c.metadata.key_count - 1) :
        \A i, j \in 1..Len(c.notes) :
            Consecutive(c, col, i, j) =>
                c.notes[j].time_us >= c.notes[i].time_us + c.notes[i].note_type.duration_us
SixInvariants(c) ==
    /\ Inv1_Columns(c) /\ Inv2_Coop(c) /\ Inv3_Durations(c)
    /\ Inv4_TimingSorted(c) /\ Inv5_Bpm(c) /\ Inv6_NoOverlap(c)

\* No end time of a note leaves the range of i64.
EndTimesFit(c) ==
    \A i \in 1..Len(c.notes) : InI64(c.notes[i].time_us + c.notes[i].note_type.duration_us)
\* No difference of two neighbouring note times (the first one from 0) leaves it.
DeltasFit(c) ==
    \A i \in 1..Len(c.notes) :
        InI64(c.notes[i].time_us - (IF i = 1 THEN 0 ELSE c.notes[i - 1].time_us))
NotesSorted(c) ==
    \A i \in 1..(Len(c.notes) - 1) : c.notes[i].time_us <= c.notes[i + 1].time_us

\* C1: for every chart c that passes validate, decode(encode(c)) succeeds and
\* returns a chart equal to c in every field.
C1_BinaryRoundTrip ==
    /\ (pc = "encoded" /\ validate(before) = OkRes) => eres.kind = "Ok"
    /\ pc = "decoded" => (dres.kind = "Ok" /\ dres.chart = before)

\* C1, what does hold: the round trip is exact in a build that wraps on overflow,
\* and in any build when no delta of neighbouring note times overflows.
C1_RoundTripWithoutOverflowPanic ==
    (pc \in {"encoded", "decoded"} /\ (~overflow_checks \/ DeltasFit(before))) =>
        C1_BinaryRoundTrip

\* C2: validate returns Ok exactly for the charts that satisfy all six
\* invariants, and an error whenever one of them is violated.
C2_ValidateIffInvariants ==
    pc = "validated" =>
        /\ (vres = OkRes) <=> SixInvariants(before)
        /\ ~SixInvariants(before) => IsErr(vres)

\* C2, what does hold: the equivalence for the charts whose end times fit in i64.
C2_ValidateIffInvariantsWhenEndTimesFit ==
    (pc = "validated" /\ EndTimesFit(before)) =>
        /\ (vres = OkRes) <=> SixInvariants(before)
        /\ ~SixInvariants(before) => IsErr(vres)

\* C3: if validate(c) succeeds then encode(c) succeeds, and the chart obtained
\* by decoding encode(c) passes validate again.
C3_ValidImpliesEncodable ==
    /\ (pc = "encoded" /\ validate(before) = OkRes) => eres.kind = "Ok"
    /\ pc = "decoded" => (dres.kind = "Ok" /\ validate(dres.chart) = OkRes)

\* C4 as stated: encode fails only with InvalidColumn, InvalidHoldDuration,
\* TimingPointsNotSorted, NoBpmTimingPoint, OverlappingNotes, Serialize or a
\* compression (I/O) error.
C4_StatedErrorKinds ==
    {"InvalidColumn", "InvalidHoldDuration", "TimingPointsNotSorted", "NoBpmTimingPoint",
     "OverlappingNotes", "Serialize", "Io"}
C4_OnlyStatedErrors ==
    (pc = "encoded" /\ IsErr(eres)) => eres.kind \in C4_StatedErrorKinds

\* C4 amended: encode validates first and fails fast (a chart validate rejects
\* is rejected by encode with validate's own error), and every error of encode
\* is one of the stated kinds or InvalidFormat (coop mode with an odd key count).
C4_ErrorKindsWithInvalidFormat ==
    pc = "encoded" =>
        /\ IsErr(validate(before)) => eres = validate(before)
        /\ IsErr(eres) => eres.kind \in C4_StatedErrorKinds \cup {"InvalidFormat"}
        /\ eres.kind = "InvalidFormat" =>
               (before.metadata.is_coop /\ before.metadata.key_count % 2 = 1)
C4_Witness ==
    /\ pc = "encoded"
    /\ eres.kind = "InvalidFormat"
    /\ before.notes # <<>>

\* C5: decode returns InvalidFormat, before any decompression or
\* deserialization, for every input shorter than 4 bytes, every input whose
\* first four bytes are not the magic, and every input larger than 100 MiB.
C5_HeaderRejected(d) ==
    \/ data_len(d) < 4
    \/ Prefix(d, 4) # ROX_MAGIC
    \/ data_len(d) > 100 * 1024 * 1024
C5_DecodeRejectsBeforeDecompress ==
    (pc = "raw_decoded" /\ C5_HeaderRejected(before)) =>
        (dres.kind = "InvalidFormat" /\ io_log = <<>>)
C5_Witness ==
    /\ pc = "raw_decoded"
    /\ data_len(before) = 100 * 1024 * 1024 + 1
    /\ Prefix(before, 4) = ROX_MAGIC
    /\ dres.kind = "InvalidFormat"

\* C6: encode never changes the caller's chart, whether it returns bytes or an
\* error.
C6_EncodeLeavesChart ==
    pc = "encoded" => chart = before
C6_Witness ==
    /\ pc = "encoded"
    /\ eres.kind = "Ok"
    /\ Len(chart.notes) = 2
    /\ delta_encode_notes(chart).result.notes # chart.notes

\* C7: on any chart whose notes are sorted by time (all i64 values), delta
\* encoding followed by the prefix sum gives every note its time back and
\* changes nothing else, however often the round trip is repeated.
C7_DeltaRoundTripIdentity ==
    (pc = "delta" /\ NotesSorted(before)) =>
        /\ ~rt.panic
        /\ rt.chart = before
        /\ [rt.delta EXCEPT !.notes = before.notes] = before
        /\ \A i \in 1..Len(before.notes) :
               [rt.delta.notes[i] EXCEPT !.time_us = 0] = [before.notes[i] EXCEPT !.time_us = 0]

\* C7, what does hold: the identity in a build that wraps on overflow (sorted or
\* not), and in any build when no delta overflows.
C7_IdentityWithoutOverflowPanic ==
    (pc = "delta" /\ (~overflow_checks \/ DeltasFit(before))) =>
        (~rt.panic /\ rt.chart = before)

\* ========================================================================
\* Properties of the dispatcher
\* ========================================================================

\* The order in which from_bytes is to try the decoders, and what each of them
\* makes of a document when called on it alone.
AutoOrder ==
    <<"RoxCodec", "decode_osu_by_mode", "SmDecoder", "QuaDecoder", "FnfDecoder",
      "JroxDecoder", "YroxDecoder">>
Outcome(name, d) ==
    CASE name = "RoxCodec" -> decode(d.bytes).res
      [] name = "decode_osu_by_mode" -> decode_osu_by_mode(d).res
      [] name = "SmDecoder" -> SmDecoder_decode(d)
      [] name = "QuaDecoder" -> QuaDecoder_decode(d)
      [] name = "FnfDecoder" -> FnfDecoder_decode(d)
      [] name = "JroxDecoder" -> JroxDecoder_decode(d)
      [] OTHER -> YroxDecoder_decode(d)

\* C8: from_bytes tries the decoders in the order binary codec, osu (with mode
\* probe), StepMania, Quaver, FNF, JROX, YROX; it returns the chart of the first
\* decoder that succeeds without running any later one, and InvalidFormat when
\* all of them fail.
C8_FromBytesOrder ==
    pc = "from_bytes" =>
        /\ Len(calls) \in 1..7
        /\ calls = SubSeq(AutoOrder, 1, Len(calls))
        /\ \A i \in 1..(Len(calls) - 1) : Outcome(AutoOrder[i], doc).kind # "Ok"
        /\ ares.kind = "Ok" => ares = Outcome(AutoOrder[Len(calls)], doc)
        /\ ares.kind # "Ok" =>
               /\ Len(calls) = 7
               /\ ares.kind = "InvalidFormat"
               /\ \A i \in 1..7 : Outcome(AutoOrder[i], doc).kind # "Ok"
        /\ (\E i \in 1..7 : Outcome(AutoOrder[i], doc).kind = "Ok") => ares.kind = "Ok"
C8_Witness ==
    /\ pc = "from_bytes"
    /\ calls = SubSeq(AutoOrder, 1, 6)
    /\ ares = JroxDecoder_decode(doc)
    /\ ares.kind = "Ok"
    /\ YroxDecoder_decode(doc).kind = "Ok"
    /\ doc.lines # <<>>

\* C9: on an osu document a probed Mode of 1 hands the bytes to the taiko
\* decoder, a probed Mode of 3 to the mania decoder, and any other probed value
\* fails with UnsupportedFormat without running either decoder.
C9_OsuModeDispatch ==
    pc = "osu_by_mode" =>
        LET mode == detect_osu_mode(doc)
        IN  /\ mode = 1 => (calls = <<"TaikoDecoder">> /\ ares = TaikoDecoder_decode(doc))
            /\ mode = 3 => (calls = <<"OsuDecoder">> /\ ares = OsuDecoder_decode(doc))
            /\ mode \notin {1, 3} => (calls = <<>> /\ ares.kind = "UnsupportedFormat")
C9_Witness ==
    /\ pc = "osu_by_mode"
    /\ doc.lines = <<Header("General"), KV("Mode", "0")>>
    /\ ares.kind = "UnsupportedFormat"
    /\ calls = <<>>

\* The lines of a document before its "[Metadata]" section header.
RECURSIVE HeadOfDocument(_)
HeadOfDocument(lines) ==
    IF lines = <<>> \/ Head(lines) = Header("Metadata") THEN <<>>
    ELSE <<Head(lines)>> \o HeadOfDocument(Tail(lines))
ParsableModeLine(line) ==
    line.kind = "kv" /\ line.name = "Mode" /\ line.value \in {"0", "1", "2", "3"}

\* C10: the mode probe returns 3 whenever no parsable "Mode:" line occurs before
\* the "[Metadata]" section header: a "Mode:" line at or after that header has
\* no influence on routing.
C10_ProbeStopsAtMetadata ==
    (pc = "probed" /\ doc.utf8) =>
        LET head == HeadOfDocument(doc.lines)
        IN  (\A i \in 1..Len(head) : ~ParsableModeLine(head[i])) => ares.mode = 3

\* C10, what does hold: the probe returns the first parsable "Mode:" line of the
\* whole document, unless a line reading exactly "[Metadata] section" precedes it.
C10_ProbeScansPastMetadataHeader ==
    (pc = "probed" /\ doc.utf8) =>
        LET Stop == {i \in 1..Len(doc.lines) :
                        ParsableModeLine(doc.lines[i]) \/ doc.lines[i] = Plain("[Metadata] section")}
        IN  IF Stop = {} \/ ~ParsableModeLine(doc.lines[MinOf(Stop)]) THEN ares.mode = 3
            ELSE doc.lines[MinOf(Stop)].value = IF ares.mode = 0 THEN "0"
                                                ELSE IF ares.mode = 1 THEN "1"
                                                ELSE IF ares.mode = 2 THEN "2" ELSE "3"

\* C11 as stated: when every decoder the dispatcher tried has failed, the error
\* handed to the caller is the error the last decoder tried produced.
C11_ReturnsLastDecoderError ==
    (pc \in {"from_bytes", "from_string"} /\ IsErr(ares)) =>
        ares = Outcome(calls[Len(calls)], doc)

\* C11 amended: every decoder failure is treated as "try next", and when all of
\* them have failed the caller gets a new InvalidFormat error ("no format decoder
\* succeeded"): the error of every decoder, the last one included, is discarded.
C11_AllErrorsDiscarded ==
    (pc \in {"from_bytes", "from_string"} /\ IsErr(ares)) =>
        /\ calls = (IF pc = "from_bytes" THEN AutoOrder ELSE Tail(AutoOrder))
        /\ \A i \in 1..Len(calls) : IsErr(Outcome(calls[i], doc))
        /\ ares = InvalidFormat("no format decoder succeeded")
        /\ \A i \in 1..Len(calls) : ares # Outcome(calls[i], doc)
C11_Witness ==
    /\ pc = "from_bytes"
    /\ IsErr(ares)
    /\ Outcome("decode_osu_by_mode", doc).kind = "UnsupportedFormat"
    /\ Outcome("YroxDecoder", doc) = InvalidFormat("File too large")

\* The translator decoders: every decoder but the binary codec.
Translators ==
    {"OsuDecoder", "TaikoDecoder", "SmDecoder", "QuaDecoder", "FnfDecoder", "JroxDecoder",
     "YroxDecoder"}

\* C12: every translator decoder (osu!mania, osu!taiko, StepMania, Quaver, FNF,
\* JROX, YROX) rejects any input larger than 100 MiB (104,857,600 bytes) with
\* InvalidFormat.
C12_TranslatorsRejectOversize ==
    (pc = "with_format" /\ calls[1] \in Translators /\ data_len(doc.bytes) > 104857600) =>
        ares.kind = "InvalidFormat"

\* C12, what does hold: every translator decoder but the taiko one rejects them,
\* and names the size as the reason.
C12_AllButTaikoRejectOversize ==
    (pc = "with_format" /\ calls[1] \in Translators \ {"TaikoDecoder"}
        /\ data_len(doc.bytes) > 104857600) =>
        ares = InvalidFormat("File too large")

\* ========================================================================
\* Properties of the format translators
\* ========================================================================

\* C13: for every key_count k in 4..=18 and every column c < k, the osu
\* encoder's x = ((2c + 1) * 256) div k maps back to c under the decoder's
\* (x * k) div 512.
C13_ColumnRoundTrip ==
    (pc = "column" /\ tin.key_count >= 4) =>
        /\ tout.x = ((2 * tin.column + 1) * 256) \div tin.key_count
        /\ tout.column = tin.column
        /\ (tout.x * tin.key_count) \div 512 = tin.column
C13_Witness ==
    /\ pc = "column"
    /\ tin = [key_count |-> 18, column |-> 17]
    /\ tout = [x |-> 497, column |-> 17]

\* |a - b|
AbsDiff(a, b) == IF a >= b THEN a - b ELSE b - a
\* A translator round trip keeps the key count, the number of notes, and of the
\* i-th note the column and, within 1000 microseconds, the time.
RoundTripPreserves(c, r) ==
    /\ r.kind = "Ok"
    /\ r.chart.metadata.key_count = c.metadata.key_count
    /\ Len(r.chart.notes) = Len(c.notes)
    /\ \A i \in 1..Len(c.notes) :
        /\ r.chart.notes[i].column = c.notes[i].column
        /\ AbsDiff(r.chart.notes[i].time_us, c.notes[i].time_us) <= 1000
\* The times of the chart's notes and the ends of its holds, in milliseconds, fit in i32.
FitsOsuTimes(c) ==
    \A i \in 1..Len(c.notes) :
        /\ TruncDiv(c.notes[i].time_us, 1000) \in MinI32..MaxI32
        /\ TruncDiv(c.notes[i].time_us, 1000)
              + TruncDiv(c.notes[i].note_type.duration_us, 1000) \in MinI32..MaxI32

\* C14 as stated: for every chart c that passes validate (here: satisfies the six
\* invariants, all times being far inside i64), OsuDecoder::decode(OsuEncoder::
\* encode(c)) succeeds with the same key_count and number of notes, the i-th note
\* keeping its column and its time within 1000 microseconds.
C14_OsuRoundTrip ==
    (pc = "osu_roundtrip" /\ SixInvariants(tin)) => RoundTripPreserves(tin, tout)

\* C14 amended: the same, for the valid charts whose notes are in non-decreasing
\* time order and whose note times and hold ends, in milliseconds, fit in i32;
\* Burst and Mine notes come back as taps.
C14_OsuRoundTripSortedInRange ==
    (pc = "osu_roundtrip" /\ SixInvariants(tin) /\ NotesSorted(tin) /\ FitsOsuTimes(tin)) =>
        /\ RoundTripPreserves(tin, tout)
        /\ \A i \in 1..Len(tin.notes) :
              tin.notes[i].note_type.tag \in {"Burst", "Mine"} =>
                  tout.chart.notes[i].note_type = Tap
C14_Witness ==
    /\ pc = "osu_roundtrip"
    /\ tin.metadata.key_count = 7
    /\ tin.notes = <<MkNote(-1500, Tap, None, 2), MkNote(1000, Hold(2500), None, 1)>>
    /\ tout.kind = "Ok"
    /\ tout.chart.notes = <<MkNote(-1000, Tap, None, 2), MkNote(1000, Hold(2000), None, 1)>>

\* C15 as stated: for every chart c that passes validate (here: satisfies the six
\* invariants), SmDecoder::decode(SmEncoder::encode(c)) succeeds with the same
\* key_count and number of notes, each note keeping its column and its time
\* within 1000 microseconds.
C15_SmRoundTrip ==
    (pc = "sm_roundtrip" /\ SixInvariants(tin)) => RoundTripPreserves(tin, tout)

\* The StepMania round trip keeps key count, note count, columns and times of the
\* valid charts of 4 or more keys whose only BPM point is at time 0 and whose
\* notes lie on the 48th-of-a-beat grid, in time order and in distinct columns.
C15_SmRoundTripOnGrid ==
    (/\ pc = "sm_roundtrip" /\ SixInvariants(tin) /\ NotesSorted(tin)
     /\ tin.metadata.key_count >= 4
     /\ tin.timing_points = <<TimingPoint_bpm(0, 120000)>>
     /\ \A i \in 1..Len(tin.notes) :
            /\ tin.notes[i].time_us % 62500 = 0
            /\ tin.notes[i].note_type.duration_us % 62500 = 0
     /\ \A i, j \in 1..Len(tin.notes) :
            i < j => /\ tin.notes[i].column # tin.notes[j].column
                     /\ tin.notes[i].time_us < tin.notes[j].time_us)
        => RoundTripPreserves(tin, tout)

\* C16 as stated: decoding the S4 document yields exactly 4 tap notes, one on
\* each of columns 0..3, at 125000, 250000, 375000 and 500000 microseconds.
C16_S4Times ==
    (pc = "sm_decode" /\ tin = S4_Document) =>
        /\ tout.kind = "Ok"
        /\ tout.chart.notes = <<MkNote(125000, Tap, None, 0), MkNote(250000, Tap, None, 1),
                                MkNote(375000, Tap, None, 2), MkNote(500000, Tap, None, 3)>>

\* C16 amended: decoding the S4 document yields exactly 4 tap notes, one on each
\* of columns 0..3, at 500000, 1000000, 1500000 and 2000000 microseconds (rows
\* 48, 96, 144 and 192 at half a second per beat of 48 rows).
C16_S4TimesPerBeat ==
    (pc = "sm_decode" /\ tin = S4_Document) =>
        /\ tout.kind = "Ok"
        /\ tout.chart.metadata.key_count = 4
        /\ tout.chart.notes = <<MkNote(500000, Tap, None, 0), MkNote(1000000, Tap, None, 1),
                                MkNote(1500000, Tap, None, 2), MkNote(2000000, Tap, None, 3)>>
C16_Witness ==
    /\ pc = "sm_decode"
    /\ tin = S4_Document
    /\ Len(tout.chart.notes) = 4
    /\ tout.chart.notes[4] = MkNote(2000000, Tap, None, 3)

\* The kind of a hit: Kat when the whistle or the clap bit is set, Don otherwise.
HitIsKat(ho) == (ho.hitsound \div 2) % 2 = 1 \/ (ho.hitsound \div 8) % 2 = 1
HitIsBig(ho) == (ho.hitsound \div 4) % 2 = 1
HitIsSpinner(ho) == (ho.object_type \div 8) % 2 = 1
\* The columns the claim gives the i-th hit: both columns of its kind when big,
\* else column n mod 2 of its kind, n counting the earlier non-big non-spinner
\* hits of the same kind.
ClaimedColumns(layout, hos, i) ==
    LET cols == IF HitIsKat(hos[i]) THEN kat_columns(layout) ELSE don_columns(layout)
        n == Cardinality({j \in 1..(i - 1) :
                             /\ ~HitIsSpinner(hos[j]) /\ ~HitIsBig(hos[j])
                             /\ HitIsKat(hos[j]) = HitIsKat(hos[i])})
    IN  IF HitIsBig(hos[i]) THEN cols ELSE <<cols[(n % 2) + 1]>>
RECURSIVE ClaimedNotes(_, _, _)
ClaimedNotes(layout, hos, i) ==
    IF i > Len(hos) THEN <<>>
    ELSE (IF HitIsSpinner(hos[i]) THEN <<>>
          ELSE [k \in 1..Len(ClaimedColumns(layout, hos, i)) |->
                   MkNote(hos[i].time_ms * 1000, Tap, None, ClaimedColumns(layout, hos, i)[k])])
         \o ClaimedNotes(layout, hos, i + 1)

\* C17: in the taiko decoder, for any layout and any sequence of non-spinner
\* hits, one alternation index is kept per kind, both starting at 0: the n-th
\* non-big hit of a kind goes to that kind's column n mod 2 (smaller first),
\* independently of the other kind, and a big hit gives two simultaneous notes in
\* both columns of its kind without advancing either index.
C17_TaikoAlternation ==
    pc = "taiko_decode" =>
        /\ tout.kind = "Ok"
        /\ tout.chart.notes = sort_by_key_time(ClaimedNotes(tin.layout, tin.hit_objects, 1))
C17_Witness ==
    /\ pc = "taiko_decode"
    /\ tin.layout = "Dkkd"
    /\ [i \in 1..Len(tin.hit_objects) |-> tin.hit_objects[i].hitsound] = <<0, 4, 0>>
    /\ \A i \in 1..Len(tin.hit_objects) :
          tin.hit_objects[i].time_ms = 1000 /\ tin.hit_objects[i].object_type = 1
    /\ [i \in 1..Len(tout.chart.notes) |-> tout.chart.notes[i].column] = <<0, 0, 3, 3>>

\* C18 as stated: the Quaver encoder writes Mode Keys7 exactly when the chart's
\* key_count is 7 and Keys4 for every other key_count.
C18_QuaModeFromKeyCount ==
    pc = "qua_encode" =>
        /\ tout.kind = "Ok"
        /\ (tout.data.mode = "Keys7") = (tin.metadata.key_count = 7)
        /\ (tout.data.mode = "Keys4") = (tin.metadata.key_count # 7)

\* What the encoder does: it writes Mode Keys4 whatever the key count.
C18_QuaModeAlwaysKeys4 ==
    pc = "qua_encode" => (tout.kind = "Ok" /\ tout.data.mode = "Keys4")

\* The note arrays of a document in document order, each with the mustHitSection
\* of its section.
RECURSIVE FnfInputNotes(_)
FnfInputNotes(sections) ==
    IF sections = <<>> THEN <<>>
    ELSE [i \in 1..Len(Head(sections).section_notes) |->
             [note |-> Head(sections).section_notes[i],
              must_hit |-> Head(sections).must_hit_section]]
         \o FnfInputNotes(Tail(sections))
\* A note belongs to the player iff (raw lane < 4) equals its section's mustHitSection.
BelongsToPlayer(e) == (e.note.lane < 4) = e.must_hit
\* The times of a sequence of notes
TimesOf(notes) == [i \in 1..Len(notes) |-> notes[i].time_us]
\* The statement of C19 about one decode
FnfSideProperty(input, side, decoded) ==
    LET all == FnfInputNotes(input.notes)
        players == SelectSeq(all, BelongsToPlayer)
        CountIn(lo, hi) == Cardinality({i \in 1..Len(decoded.notes) :
                                           decoded.notes[i].column \in lo..hi})
    IN  /\ side = "Player" =>
            /\ Len(decoded.notes) = Len(players)
            /\ TimesOf(decoded.notes)
                  = TimesOf(sort_by_key_time([i \in 1..Len(players) |->
                                                 [time_us |-> players[i].note.time_ms * 1000]]))
            /\ \A i \in 1..Len(decoded.notes) : decoded.notes[i].column \in 0..3
        /\ side = "Both" =>
            /\ Len(decoded.notes) = Len(all)
            /\ CountIn(4, 7) = Len(players)
            /\ CountIn(0, 3) = Len(all) - Len(players)
            /\ decoded.metadata.key_count = 8
            /\ decoded.metadata.is_coop

\* C19 as stated: for every FNF document, a note belongs to the player iff (raw
\* lane < 4) equals its section's mustHitSection; side Player keeps exactly the
\* player's notes, each with a column in 0..3; side Both emits every note once,
\* opponent notes at columns 0..3 and player notes at 4..7, with key_count 8 and
\* is_coop true.
C19_FnfSides ==
    pc = "fnf_decode" =>
        (tout.kind = "Ok" /\ FnfSideProperty(tin.fnf, tin.side, tout.chart))

\* The same holds of the documents whose lanes are all below 8.
C19_FnfSidesLanesBelow8 ==
    (/\ pc = "fnf_decode"
     /\ \A i \in 1..Len(FnfInputNotes(tin.fnf.notes)) :
            FnfInputNotes(tin.fnf.notes)[i].note.lane < 8)
        => (tout.kind = "Ok" /\ FnfSideProperty(tin.fnf, tin.side, tout.chart))

\* The sample filename a hit object names (surrounding blanks aside), <<>> when
\* it names none.
SampleNamed(ho) ==
    LET RECURSIVE Strip(_)
        Strip(f) == IF f # <<>> /\ Head(f) = " " THEN Strip(Tail(f))
                    ELSE IF f # <<>> /\ f[Len(f)] = " " THEN Strip(SubSeq(f, 1, Len(f) - 1))
                    ELSE f
    IN  IF Len(ho.sample) >= 5 THEN Strip(ho.sample[5]) ELSE <<>>
\* The distinct non-empty sample filenames of a document
SampleNames(d) == {SampleNamed(d.hit_objects[i]) : i \in 1..Len(d.hit_objects)} \ {<<>>}
\* The statement of C20 about a document and the chart decoded from it; a note is
\* matched with its hit object by its time.
HitsoundsDeduplicated(d, decoded) ==
    /\ \A f \in SampleNames(d) :
          Cardinality({k \in 1..Len(decoded.hitsounds) : decoded.hitsounds[k].file = f}) = 1
    /\ \A i \in 1..Len(d.hit_objects) : \A j \in 1..Len(decoded.notes) :
          (decoded.notes[j].time_us = d.hit_objects[i].time * 1000
           /\ SampleNamed(d.hit_objects[i]) # <<>>) =>
              /\ decoded.notes[j].hitsound_index # None
              /\ decoded.notes[j].hitsound_index[1] + 1 \in 1..Len(decoded.hitsounds)
              /\ decoded.hitsounds[decoded.notes[j].hitsound_index[1] + 1].file
                    = SampleNamed(d.hit_objects[i])
    /\ Len(decoded.hitsounds) <= Cardinality(SampleNames(d))

\* C20 as stated: after an osu decode, each distinct non-empty sample filename of
\* the input appears exactly once in the chart's hitsounds table, every note that
\* names a sample carries as hitsound_index the position of that filename in the
\* table, and hitsounds.len() is at most the number of distinct sample filenames.
C20_HitsoundDedup ==
    pc = "osu_decode" => (tout.kind = "Ok" /\ HitsoundsDeduplicated(tin, tout.chart))

\* The same holds of the documents that name no more distinct samples than a
\* hitsound index can count.
C20_HitsoundDedupWithinIndexRange ==
    (pc = "osu_decode" /\ Cardinality(SampleNames(tin)) <= 2 ^ HsBits) =>
        (tout.kind = "Ok" /\ HitsoundsDeduplicated(tin, tout.chart))

\* ========================================================================
\* Properties of the decoded charts
\* ========================================================================
\* The steps that end with a format decoder's chart in tout
DecoderSteps ==
    {"osu_decode", "osu_roundtrip", "sm_decode", "sm_roundtrip", "taiko_decode",
     "fnf_decode", "qua_decode"}

\* The records of the input document of a decoder step, in document order, are
\* not in time order
RecordsOutOfOrder ==
    /\ pc = "qua_decode"
    /\ \E i \in 1..(Len(tin.hit_objects) - 1) :
           tin.hit_objects[i].start_time > tin.hit_objects[i + 1].start_time

\* C21: every chart returned by a format decoder (osu!mania, osu!taiko,
\* StepMania, Quaver, FNF) has its notes in non-decreasing time_us order,
\* whatever the order of the records in the input document.
C21_DecodedNotesSorted ==
    (pc \in DecoderSteps /\ tout.kind = "Ok") => NotesSorted(tout.chart)

C21_Witness ==
    /\ RecordsOutOfOrder
    /\ tout.kind = "Ok"
    /\ Len(tout.chart.notes) = 2
    /\ tout.chart.notes[1].time_us < tout.chart.notes[2].time_us

\* The oldest open head of a column among those of the given kinds: its place
\* in the buffer, 0 when there is none
OldestOpen(open, column, kinds) ==
    LET At == {i \in 1..Len(open) : open[i].column = column /\ open[i].note_type \in kinds}
    IN  IF At = {} THEN 0 ELSE CHOOSE i \in At : \A j \in At : i <= j

\* The notes a pairing rule gives for the parsed notes of a document, taken in
\* (time, column) order, with one buffer of open heads.  A tail closes the
\* oldest open head of its column; with holds_first, the oldest open hold head
\* and, when there is none, the oldest open roll head.
RECURSIVE Pairing(_, _, _, _)
Pairing(sorted_notes, notes, open, holds_first) ==
    IF sorted_notes = <<>> THEN notes
    ELSE LET n == Head(sorted_notes)
             rest == Tail(sorted_notes)
             any == OldestOpen(open, n.column, {"HoldHead", "RollHead"})
             hold == OldestOpen(open, n.column, {"HoldHead"})
             o == IF holds_first /\ hold # 0 THEN hold ELSE any
         IN  CASE n.note_type \in {"Tap", "Lift"} ->
                    Pairing(rest, Append(notes, MkNote(n.time_us, Tap, None, n.column)),
                            open, holds_first)
               [] n.note_type = "Mine" ->
                    Pairing(rest, Append(notes, MkNote(n.time_us, Mine, None, n.column)),
                            open, holds_first)
               [] n.note_type \in {"HoldHead", "RollHead"} ->
                    Pairing(rest, notes, Append(open, n), holds_first)
               [] n.note_type = "Tail" /\ o # 0 ->
                    Pairing(rest,
                        Append(notes,
                               MkNote(open[o].time_us,
                                      IF open[o].note_type = "HoldHead"
                                      THEN Hold(n.time_us - open[o].time_us)
                                      ELSE Burst(n.time_us - open[o].time_us),
                                      None, n.column)),
                        SubSeq(open, 1, o - 1) \o SubSeq(open, o + 1, Len(open)), holds_first)
               [] OTHER -> Pairing(rest, notes, open, holds_first)

SmPairing(document, holds_first) ==
    Pairing(sort_by_time_column(parse_chart(document, parse_bpms(document.bpms)).notes),
            <<>>, <<>>, holds_first)

SameNotes(a, b) ==
    /\ Len(a) = Len(b)
    /\ {a[i] : i \in 1..Len(a)} = {b[i] : i \in 1..Len(b)}

\* C22: in the StepMania decoder the open heads of a column (hold heads '2' and
\* roll heads '4' alike) are buffered in FIFO order: each tail '3' closes the
\* oldest head still open in its column, producing a Hold or Burst of that
\* head's kind with duration = tail time - head time; a tail met when its
\* column has no open head produces no note and changes no pending head.
C22_SmHeadsFifo ==
    pc = "sm_decode" => SameNotes(tout.chart.notes, SmPairing(tin, FALSE))

\* C22, amended: the hold heads and the roll heads of a column wait in two FIFO
\* buffers; a tail closes the oldest open hold head of its column and, when no
\* hold head is open there, the oldest open roll head.
C22_SmHeadsFifoPerKind ==
    pc = "sm_decode" => SameNotes(tout.chart.notes, SmPairing(tin, TRUE))

\* A document where the two rules part (a tail meets an older roll head and a
\* younger hold head), with an orphan tail
C22_Witness ==
    /\ pc = "sm_decode"
    /\ ~SameNotes(SmPairing(tin, FALSE), SmPairing(tin, TRUE))
    /\ \E i \in 1..Len(tout.chart.notes) : tout.chart.notes[i].note_type.tag = "Burst"
    /\ \E i \in 1..Len(tout.chart.notes) : tout.chart.notes[i].note_type.tag = "Hold"

\* ========================================================================
\* Properties of the StepMania encoder
\* ========================================================================
\* The row (in 48ths of a beat) the encoder gives a time of chart c
SmRowOf(c, time_us) ==
    LET IsBpm(tp) == ~tp.is_inherited
        bpm_points == SelectSeq(c.timing_points, IsBpm)
    IN  RatRound(RatMul(us_to_beat_simple(time_us, bpm_points, bpm_points[1].time_us),
                        Rat(ROWS_PER_BEAT, 1)))
\* The character written at a row and column of the notes block
SmCell(document, row, col) ==
    LET lines == document.measures[(row \div ROWS_PER_MEASURE) + 1]
    IN  lines[(((row % ROWS_PER_MEASURE) * Len(lines)) \div ROWS_PER_MEASURE) + 1][col + 1]
IsLong(note) == note.note_type.tag \in {"Hold", "Burst"}
SmEndRow(c, i) == SmRowOf(c, c.notes[i].time_us + c.notes[i].note_type.duration_us)
SmStartRow(c, i) == SmRowOf(c, c.notes[i].time_us)
\* The tail of note i and the start of note j fall on one row and column
SmCollision(c, i, j) ==
    /\ i # j /\ IsLong(c.notes[i])
    /\ c.notes[j].column = c.notes[i].column
    /\ SmStartRow(c, j) = SmEndRow(c, i)
\* No other note has an event in the cell of the head of note i
SmHeadAlone(c, i) ==
    \A k \in 1..Len(c.notes) :
        (k # i /\ c.notes[k].column = c.notes[i].column) =>
            /\ SmStartRow(c, k) # SmStartRow(c, i)
            /\ IsLong(c.notes[k]) => SmEndRow(c, k) # SmStartRow(c, i)
SmCollisionResolved(c, document) ==
    \A i, j \in 1..Len(c.notes) :
        SmCollision(c, i, j) =>
            /\ SmCell(document, SmEndRow(c, i), c.notes[i].column) \in {"1", "2", "4", "M"}
            /\ (SmHeadAlone(c, i) /\ SmStartRow(c, i) # SmEndRow(c, i)) =>
                   SmCell(document, SmStartRow(c, i), c.notes[i].column) = "1"

\* C23: whenever the StepMania encoder would place a hold or roll tail '3' and
\* a starting note ('1', '2', '4' or 'M') on the same row and column, it
\* degrades that hold or roll to a tap (its head is written as '1'), writes no
\* tail for it, and still writes the starting note, whatever other notes share
\* that time in other columns and whatever the order of the notes in the chart.
C23_SmCollisionDegrades ==
    pc = "sm_encode" => SmCollisionResolved(tin, tout.document)

\* The same for the charts of two notes, the long one first, that meet at one
\* time: the tail and the start are neighbours in the encoder's event list
C23_SmCollisionOfNeighbours ==
    (/\ pc = "sm_encode" /\ Len(tin.notes) = 2 /\ SmCollision(tin, 1, 2)
     /\ tin.notes[2].time_us = tin.notes[1].time_us + tin.notes[1].note_type.duration_us)
        => SmCollisionResolved(tin, tout.document)

\* ========================================================================
\* Properties of the FNF decoder's timing points
\* ========================================================================
FnfChangesBpm(section) == section.change_bpm /\ section.bpm > 0
FnfPointsAt(points, t) == {i \in 1..Len(points) : points[i].time_us = t}
FnfChangingSections(fnf) == {k \in 1..Len(fnf.notes) : FnfChangesBpm(fnf.notes[k])}
\* The three parts of C24 for a document (none of whose notes is at time 0, so
\* that a point at 0 is the inserted one) and the timing points decoded from it
FnfTimingProperty(fnf, points) ==
    /\ FnfPointsAt(points, 0) # {} => (fnf.notes = <<>> \/ ~FnfChangesBpm(fnf.notes[1]))
    /\ \A i \in FnfPointsAt(points, 0) :
           ~points[i].is_inherited /\ points[i].bpm = fnf.bpm
    /\ Len(points) = Cardinality(FnfPointsAt(points, 0))
                        + Cardinality(FnfChangingSections(fnf))
    /\ \A k \in FnfChangingSections(fnf) :
           \E i \in 1..Len(points) :
               points[i].time_us # 0 /\ points[i].bpm = fnf.notes[k].bpm

\* C24: the FNF decoder inserts a non-inherited timing point at t=0 only when no
\* BPM-changing section comes first, and the point inserted at t=0 always
\* carries the BPM of the song header; each section with changeBpm and a
\* positive bpm contributes one timing point carrying that section's bpm.
C24_FnfTimingPoints ==
    pc = "fnf_decode" => FnfTimingProperty(tin.fnf, tout.chart.timing_points)

\* The same for the documents whose first section does not change the BPM and
\* whose BPM-changing sections all have notes
C24_FnfTimingPointsFirstSectionPlain ==
    (/\ pc = "fnf_decode"
     /\ ~FnfChangesBpm(tin.fnf.notes[1])
     /\ \A k \in FnfChangingSections(tin.fnf) : tin.fnf.notes[k].section_notes # <<>>)
        => FnfTimingProperty(tin.fnf, tout.chart.timing_points)

\* ========================================================================
\* Properties of the osu decoder's columns
\* ========================================================================
\* C25: for every hit object with x in 0..=512 and every key_count in 4..=18,
\* OsuHitObject::column(key_count) returns a value c with 0 <= c < key_count,
\* so every note produced by the osu decoder has column < key_count.
C25_ColumnBelowKeyCount ==
    (pc = "column_of_x" /\ tin.key_count <= 18) =>
        (0 <= tout.column /\ tout.column < tin.key_count)

\* The same for x in 0..=511
C25_ColumnBelowKeyCountLeftOf512 ==
    (pc = "column_of_x" /\ tin.x < OsuMaxX) =>
        (0 <= tout.column /\ tout.column < tin.key_count)

\* The characters of a column of the notes block, read from top to bottom
RECURSIVE SmLinesOf(_)
SmLinesOf(measures) ==
    IF measures = <<>> THEN <<>> ELSE Head(measures) \o SmLinesOf(Tail(measures))
SmColumn(document, col) ==
    LET lines == SmLinesOf(document.measures)
    IN  [i \in 1..Len(lines) |-> lines[i][col + 1]]
\* A column is well formed: every head is followed by one tail before any other
\* head, tap or mine, and every tail closes an open head
RECURSIVE SmWellFormed(_, _)
SmWellFormed(chars, open) ==
    IF chars = <<>> THEN ~open
    ELSE CASE Head(chars) \in {"2", "4"} -> ~open /\ SmWellFormed(Tail(chars), TRUE)
           [] Head(chars) = "3" -> open /\ SmWellFormed(Tail(chars), FALSE)
           [] Head(chars) \in {"1", "M"} -> ~open /\ SmWellFormed(Tail(chars), open)
           [] OTHER -> SmWellFormed(Tail(chars), open)
SmBlockWellFormed(document, key_count) ==
    \A col \in 0..(key_count - 1) : SmWellFormed(SmColumn(document, col), FALSE)

\* A chart of the translators passes validate.  Its times are microseconds far
\* inside the range of i64, where no sum of validate overflows and validate
\* accepts exactly the charts that satisfy the six invariants (C2).
PassesValidate(c) == SixInvariants(c)

\* C26: in every notes block the StepMania encoder writes for a chart that
\* passes validate, reading each column from top to bottom, every head ('2' or
\* '4') is followed by exactly one tail '3' before any other head, tap or mine
\* in that column, and every '3' closes a head that is open in that column: the
\* output contains no hanging head and no orphan tail.
C26_SmBlockWellFormed ==
    (pc = "sm_encode" /\ PassesValidate(tin)) =>
        SmBlockWellFormed(tout.document, tin.metadata.key_count)

\* The same for the valid charts in which no tail falls on the row and column
\* of another note's start
C26_SmBlockWellFormedWithoutCollision ==
    (/\ pc = "sm_encode" /\ PassesValidate(tin)
     /\ \A i, j \in 1..Len(tin.notes) : ~SmCollision(tin, i, j))
        => SmBlockWellFormed(tout.document, tin.metadata.key_count)

\* ========================================================================
\* Properties of validate: the order of notes and timing points
\* ========================================================================
\* The chart validate accepted, or encode serialized
Accepted ==
    \/ pc = "validated" /\ vres = OkRes
    \/ pc = "encoded" /\ eres.kind = "Ok"

\* C27: every chart that validate accepts, and therefore every chart the binary
\* encoder serializes, has its notes in non-decreasing time_us order.
C27_AcceptedNotesSorted == Accepted => NotesSorted(before)

\* C27, amended: every chart that validate accepts, and therefore every chart
\* the binary encoder serializes, has its timing points in non-decreasing
\* time_us order.
C27_AcceptedTimingPointsSorted == Accepted => Inv4_TimingSorted(before)

\* An accepted chart of two timing points whose notes are not in time order
C27_Witness ==
    /\ Accepted
    /\ Len(before.timing_points) = 2
    /\ before.timing_points[1].time_us < before.timing_points[2].time_us
    /\ ~NotesSorted(before)

\* ========================================================================
\* Properties of the osu round trip and validate
\* ========================================================================
\* What validate checks of the notes of a chart: columns, durations, overlaps
NotesValid(c) == Inv1_Columns(c) /\ Inv3_Durations(c) /\ Inv6_NoOverlap(c)

\* C28: for every chart c that passes validate, the chart OsuDecoder::decode(
\* OsuEncoder::encode(c)) also passes validate: every hold comes back with
\* duration_us > 0 after the truncation to whole milliseconds, and no two notes
\* on a column overlap.
C28_OsuRoundTripValid ==
    (pc = "osu_roundtrip" /\ PassesValidate(tin)) =>
        (tout.kind = "Ok" /\ NotesValid(tout.chart))

\* The same for the valid charts whose times are not negative and fit, in
\* milliseconds, in i32, and whose holds last a millisecond or more
C28_OsuRoundTripValidLongHolds ==
    (/\ pc = "osu_roundtrip" /\ PassesValidate(tin) /\ FitsOsuTimes(tin)
     /\ \A i \in 1..Len(tin.notes) :
            /\ tin.notes[i].time_us >= 0
            /\ tin.notes[i].note_type.tag = "Hold" => tin.notes[i].note_type.duration_us >= 1000)
        => (tout.kind = "Ok" /\ NotesValid(tout.chart))

\* ========================================================================
\* Properties of the dispatcher's probe against the decoders
\* ========================================================================
\* The probe handed the document to the mania decoder
RoutedToMania == pc = "osu_by_mode" /\ calls = <<"OsuDecoder">>
\* The mania parser gets as far as reading the document
ManiaParserReads(d) == d.utf8 /\ data_len(d.bytes) <= PARSER_MAX_FILE_SIZE

\* C29: the dispatcher's mode probe and the mania decoder agree on the mode of a
\* document: whenever the probe routes a document to the mania decoder (probed
\* value 3, including the default taken when no Mode: line is found), the mode
\* the mania parser reads from the document is 3, so the decoder does not
\* reject it with 'Not a mania beatmap'.
C29_ProbeAgreesWithManiaParser ==
    RoutedToMania =>
        /\ ManiaParserReads(doc) => osu_parse_mode(doc.lines, "None", 0) = 3
        /\ ares # InvalidFormat("Not a mania beatmap")

\* The same for the documents made of a [General] header and a Mode line whose
\* value parses
C29_ProbeAgreesOnGeneralMode ==
    (/\ RoutedToMania /\ ManiaParserReads(doc) /\ Len(doc.lines) = 2
     /\ doc.lines[1] = Header("General")
     /\ doc.lines[2].kind = "kv" /\ parse_u8(doc.lines[2].value) # None)
        => (osu_parse_mode(doc.lines, "None", 0) = 3 /\ ares.kind = "Ok")

\* from_bytes has answered on the document that encode_with_format wrote in `format`.
ProbedEncoded(format) == pc = "from_bytes" /\ doc = encode_with_format(format)

\* The answer of the format's own decoder on the document.
ExplicitDispatch(format) == decode_with_format(doc, format).res

\* C30: probing agrees with explicit dispatch: for every textual output format
\* F (osu, StepMania, Quaver, FNF, JROX, YROX), from_bytes applied to the
\* document F's encoder wrote returns what F's own decoder returns on it; no
\* decoder earlier in the probing order accepts it.
C30_ProbingAgreesWithDispatch ==
    \A format \in TextOutputFormat :
        ProbedEncoded(format) => ares = ExplicitDispatch(format)

\* On the documents of the osu, StepMania and Quaver encoders the probing
\* returns the own decoder's chart.
C30_ProbingAgreesBeforeQuaver ==
    \A format \in {"Osu", "Sm", "Qua"} :
        ProbedEncoded(format) => ares = ExplicitDispatch(format) /\ ares.kind = "Ok"

\* On the documents of the FNF, JROX and YROX encoders the own decoder
\* succeeds and the probing returns the Quaver decoder's chart.
C30_QuaverAnswersForLaterFormats ==
    \A format \in {"Fnf", "Jrox", "Yrox"} :
        ProbedEncoded(format) =>
            /\ ExplicitDispatch(format).kind = "Ok"
            /\ ares = Decoded("QuaDecoder")

====
